---- MODULE Spec2Model ----
(***************************************************************************)
(* nexus-conversations: the SQS consumer, the conversation registry, the   *)
(* hot message store (DynamoDB), the migration to the durable store        *)
(* (Postgres) and the CSAT/NPS side effects.                               *)
(*                                                                         *)
(* The handlers are pure operators over a record W ("the world": the rows  *)
(* of the durable store, the items of the hot store, the task queues and   *)
(* the consumer's memory); an action applies a handler to the current      *)
(* world.  A handler returns [W, raised, ret]: the world it leaves, whether*)
(* it raised, and its return value.                                        *)
(*                                                                         *)
(* Left out: contact_name, external_id, start_date and end_date of a       *)
(* conversation (no lookup or branch reads them), the consumer's report    *)
(* and throughput counters, logging and sentry calls.                      *)
(***************************************************************************)
EXTENDS Integers, Sequences, FiniteSets, TLC

VARIABLES
  projects,    \* Project rows: the set of project uuids
  convs,       \* Conversation rows in creation order; uuid = created_at = index
  archive,     \* ConversationMessages rows: [conversation, messages]
  classifications, \* ConversationClassification rows, in creation order
  hot,         \* items of the DynamoDB message table
  jobs,        \* classify_conversation_task.delay calls, in order
  datalake,    \* send_data_lake_event.delay calls, in order
  processed,   \* the consumer's processed_messages (their correlation ids)
  queue,       \* raw messages in the SQS queue (published, not deleted)
  published,   \* number of raw messages published so far
  written,     \* history: per conversation, the storage_message calls made for it
  outcome,     \* history: per raw message, how its last processing ended
  last,        \* history: the last call of a service entry point
  pending      \* a second consumer between look-up and create of ensure_conversation_exists

vars == <<projects, convs, archive, classifications, hot, jobs, datalake,
          processed, queue,
          published, written, outcome, last, pending>>

----------------------------------------------------------------------------
\* Bounds of the model.
MaxConvs == 3       \* Conversation rows ever created
MaxHot == 3         \* hot-store items ever written
MaxRaw == 2         \* raw messages ever published
MaxJobs == 2        \* classification jobs ever enqueued
MaxFaultyBatch == 1 \* messages received by an iteration in which a call fails
MaxLen == 1         \* characters of a string field of a data-lake event
MaxRows == 2        \* conversations of the table a billing count reads
MaxClock == 5       \* the latest reading of the clock, in ticks
MaxDelay == 2       \* ticks from the clock reading of a write to its put_item
MaxClassified == 2  \* conversations there are when classifications run

\* ResolutionEntities
RESOLVED == 0
UNRESOLVED == 1
IN_PROGRESS == 2
UNCLASSIFIED == 3
HAS_CHAT_ROOM == 4
Resolutions == {RESOLVED, UNRESOLVED, IN_PROGRESS, UNCLASSIFIED, HAS_CHAT_ROOM}

\* limit= of the single query get_messages_from_dynamo issues
QueryLimit == 1000
\* MaxNumberOfMessages of receive_message
ReceiveMax == 10

None == 0                 \* Python None where a uuid or correlation id is expected
NoChannel == "none"       \* channel_uuid missing (None or empty)
NoValue == "null"         \* Python None where a string is expected (csat, nps)
Projects == {"P1"}
Contacts == {"u1", "u2"}
Channels == {"C1"}
Timestamps == 1 .. 2      \* message.created_at, in seconds
UuidRanks == 1 .. MaxHot  \* where a new uuid4() sorts among the uuids in the table

Min(a, b) == IF a < b THEN a ELSE b

----------------------------------------------------------------------------
\* The world the handlers work on.
World ==
  [projects |-> projects, convs |-> convs, archive |-> archive,
   classifications |-> classifications, hot |-> hot,
   jobs |-> jobs, datalake |-> datalake, processed |-> processed,
   written |-> written]

Result(W, raised, ret) == [W |-> W, raised |-> raised, ret |-> ret]

\* Conversation.objects.filter(project=, channel_uuid=, contact_urn=)
ConvsOf(W, project_uuid, contact_urn, channel_uuid) ==
  {i \in 1 .. Len(W.convs) :
     /\ W.convs[i].project = project_uuid
     /\ W.convs[i].contact_urn = contact_urn
     /\ W.convs[i].channel_uuid = channel_uuid}

\* A plausible slip: ascending order, the oldest row first.
Oldest(S) == CHOOSE i \in S : \A j \in S : i <= j

\* ... .order_by("-created_at").first() of a non-empty queryset
MostRecent(S) == CHOOSE i \in S : \A j \in S : j <= i

NewConversation(project_uuid, contact_urn, channel_uuid, resolution, has_chats_room) ==
  [project |-> project_uuid, contact_urn |-> contact_urn,
   channel_uuid |-> channel_uuid, resolution |-> resolution,
   has_chats_room |-> has_chats_room, csat |-> NoValue, nps |-> NoValue]

----------------------------------------------------------------------------
\* Conversation.objects.create(...): a new row, the most recently created one.
CreateConversation(W, row) ==
  [W EXCEPT !.convs = Append(@, row), !.written = Append(@, 0)]

\* The Conversation object a handler holds: the row as loaded, with its uuid.
ConversationObject(W, c) ==
  [uuid |-> c, project |-> W.convs[c].project,
   contact_urn |-> W.convs[c].contact_urn,
   channel_uuid |-> W.convs[c].channel_uuid,
   resolution |-> W.convs[c].resolution]

\* A plausible slip: the filter compares with the wrong resolution.
conversation_queryset_wrong_resolution(W, project_uuid, contact_urn, channel_uuid) ==
  {i \in ConvsOf(W, project_uuid, contact_urn, channel_uuid) :
     W.convs[i].resolution = HAS_CHAT_ROOM}

\* The conversation_queryset of ensure_conversation_exists: the conversations
\* in progress of the tuple.
conversation_queryset(W, project_uuid, contact_urn, channel_uuid) ==
  {i \in ConvsOf(W, project_uuid, contact_urn, channel_uuid) :
     W.convs[i].resolution = IN_PROGRESS}

\* MainConversationService.ensure_conversation_exists (ConversationService
\* delegates to it after the same channel_uuid test); ret is the uuid of the
\* conversation, or None.
\* what it does once the channel_uuid test has passed (lines 57-114)
ensure_with_channel(W, project_uuid, contact_urn, channel_uuid) ==
  LET W1 == [W EXCEPT !.projects = @ \cup {project_uuid}]
      active == conversation_queryset(W1, project_uuid, contact_urn, channel_uuid)
  IN IF active = {}
     THEN LET W2 == CreateConversation(W1,
                      NewConversation(project_uuid, contact_urn, channel_uuid,
                                      IN_PROGRESS, FALSE))
          IN Result(W2, FALSE, Len(W2.convs))
     ELSE LET first == MostRecent(active)
              cs == W1.convs
              W2 == IF Cardinality(active) > 1
                    THEN [W1 EXCEPT !.convs =
                            [i \in DOMAIN cs |->
                               IF i \in active \ {first}
                               THEN [cs[i] EXCEPT !.resolution = UNCLASSIFIED]
                               ELSE cs[i]]]
                    ELSE W1
          IN Result(W2, FALSE, first)

\* A plausible slip: the channel_uuid test is missing.
ensure_conversation_exists_unchecked(W, project_uuid, contact_urn, channel_uuid) ==
  ensure_with_channel(W, project_uuid, contact_urn, channel_uuid)

ensure_conversation_exists(W, project_uuid, contact_urn, channel_uuid) ==
  IF channel_uuid = NoChannel
  THEN Result(W, FALSE, None)
  ELSE ensure_with_channel(W, project_uuid, contact_urn, channel_uuid)

----------------------------------------------------------------------------
\* The hot store.  An item's sort key message_timestamp is
\* "<created_at>#<uuid4>", here the pair (created_at, message_id).  Only the
\* order of the uuids matters: message_id is the rank of the item's uuid among
\* the uuids in the table, and a new uuid takes any rank.
ConversationKey(project_uuid, contact_urn, channel_uuid) ==
  <<project_uuid, contact_urn, channel_uuid>>

Partition(W, conversation_key) ==
  {it \in W.hot : it.conversation_key = conversation_key}

SortKeyLess(a, b) ==
  \/ a.created_at < b.created_at
  \/ a.created_at = b.created_at /\ a.message_id < b.message_id

\* DynamoMessageRepository._format_message
format_message(item) ==
  [text |-> item.message_text, source |-> item.source_type,
   created_at |-> item.created_at]

\* A partition read with ScanIndexForward=False: newest sort key first.
RECURSIVE NewestFirst(_)
NewestFirst(S) ==
  IF S = {} THEN <<>>
  ELSE LET top == CHOOSE x \in S : \A y \in S \ {x} : SortKeyLess(y, x)
       IN <<format_message(top)>> \o NewestFirst(S \ {top})

\* DynamoMessageRepository.get_messages without a cursor: one query, at most
\* limit items.
get_messages(W, project_uuid, contact_urn, channel_uuid, limit) ==
  LET all == NewestFirst(Partition(W,
               ConversationKey(project_uuid, contact_urn, channel_uuid)))
  IN SubSeq(all, 1, Min(limit, Len(all)))

\* DynamoMessageRepository.storage_message; uid is the rank the value of
\* uuid4() takes (at most one past the last), fault = "dynamo" makes
\* put_item raise.
storage_message(W, project_uuid, contact_urn, message_data, channel_uuid, uid, fault) ==
  IF fault = "dynamo"
  THEN Result(W, TRUE, None)
  ELSE
    LET rank == Min(uid, Cardinality(W.hot) + 1)
        others == {IF it.message_id >= rank
                   THEN [it EXCEPT !.message_id = @ + 1] ELSE it : it \in W.hot}
    IN Result([W EXCEPT !.hot = others \cup
                 {[conversation_key |->
                     ConversationKey(project_uuid, contact_urn, channel_uuid),
                   message_id |-> rank,
                   message_text |-> message_data.text,
                   source_type |-> message_data.source,
                   created_at |-> message_data.created_at,
                   resolution_status |-> IN_PROGRESS]}],
              FALSE, None)

\* A plausible slip: the test is dropped.
is_conversation_in_progress_always(conversation) == TRUE

\* MessageRepository._is_conversation_in_progress
is_conversation_in_progress(conversation) ==
  conversation.resolution = IN_PROGRESS

\* The common body of save_received_message and save_sent_message, which
\* differ in the default of message.source only.
save_message(W, conversation, event, default_source, uid, fault) ==
  IF is_conversation_in_progress(conversation)
  THEN LET formatted_message ==
             [text |-> event.message.text,
              source |-> IF event.message.source = ""
                         THEN default_source ELSE event.message.source,
              created_at |-> event.timestamp]
           r == storage_message(W, event.project_uuid, event.contact_urn,
                                formatted_message, event.channel_uuid, uid, fault)
       IN IF r.raised THEN r
          ELSE Result([r.W EXCEPT !.written[conversation.uuid] = @ + 1],
                      FALSE, None)
  ELSE Result(W, FALSE, None)

\* MessageRepository.save_received_message
save_received_message(W, conversation, event, uid, fault) ==
  save_message(W, conversation, event, "incoming", uid, fault)

\* MessageRepository.save_sent_message
save_sent_message(W, conversation, event, uid, fault) ==
  save_message(W, conversation, event, "outgoing", uid, fault)

----------------------------------------------------------------------------
\* A plausible slip: the messages are added to the list of an existing row.
update_or_create_appends(rows, c, messages) ==
  LET old == {r \in rows : r.conversation = c}
  IN (rows \ old) \cup
     {[conversation |-> c,
       messages |-> IF old = {} THEN messages
                    ELSE (CHOOSE r \in old : TRUE).messages \o messages]}

\* ConversationMessages.objects.update_or_create(conversation=c,
\* defaults={"messages": messages}); conversation is the primary key.
update_or_create(rows, c, messages) ==
  {r \in rows : r.conversation # c} \cup
  {[conversation |-> c, messages |-> messages]}

\* A plausible slip: the except clause logs the error and does not re-raise.
migrate_conversation_messages_to_postgres_quiet(W, c, fault) ==
  IF fault \in {"dynamo", "postgres"}
  THEN Result(W, FALSE, 0)
  ELSE
    LET conversation == W.convs[c]
        messages == get_messages(W, conversation.project, conversation.contact_urn,
                                 conversation.channel_uuid, QueryLimit)
    IN IF messages = <<>>
       THEN Result(W, FALSE, 0)
       ELSE Result([W EXCEPT !.archive = update_or_create(@, c, messages)],
                   FALSE, Len(messages))

\* MessageMigrationService.migrate_conversation_messages_to_postgres;
\* fault = "dynamo" makes the query of get_messages_from_dynamo raise and
\* fault = "postgres" makes update_or_create raise, its row not written.
\* ret is the number of messages written to the ConversationMessages row.
migrate_conversation_messages_to_postgres(W, c, fault) ==
  IF fault = "dynamo"
  THEN Result(W, TRUE, 0)
  ELSE
    LET conversation == W.convs[c]
        messages == get_messages(W, conversation.project, conversation.contact_urn,
                                 conversation.channel_uuid, QueryLimit)
    IN IF messages = <<>>
       THEN Result(W, FALSE, 0)
       ELSE IF fault = "postgres"
            THEN Result(W, TRUE, 0)
            ELSE Result([W EXCEPT !.archive = update_or_create(@, c, messages)],
                        FALSE, Len(messages))

\* A plausible slip: the classification is not enqueued.
migrate_without_classify(W, c, fault) ==
  Result(migrate_conversation_messages_to_postgres(W, c, fault).W, FALSE, c)

\* A plausible slip: the exception of the migration reaches the caller.
migrate_and_classify_raising(W, c, fault) ==
  LET m == migrate_conversation_messages_to_postgres(W, c, fault)
  IN IF m.raised THEN Result(m.W, TRUE, c)
     ELSE Result([m.W EXCEPT !.jobs = Append(@, c)], FALSE, c)

\* The try block both closing paths run after the save: migrate, then enqueue
\* the classification; an exception of either is logged and swallowed.
migrate_and_classify(W, c, fault) ==
  LET m == migrate_conversation_messages_to_postgres(W, c, fault)
  IN IF m.raised THEN Result(m.W, FALSE, c)
     ELSE Result([m.W EXCEPT !.jobs = Append(@, c)], FALSE, c)

\* The values a payload carries under "value".  A JSON string is written as
\* itself, "" is the empty string, NoValue is an absent or null value, and
\* the JSON integer n is written "int n".
IntValues == {"int 0", "int 9"}

Digits == {"0", "5", "9"}

\* Python's truth value of a payload value: None, "" and 0 are false
truthy(value) == value \notin {NoValue, "", "int 0"}

\* str(value)
str(value) ==
  CASE value = "int 0" -> "0"
    [] value = "int 9" -> "9"
    [] value = "int 5" -> "5"
    [] OTHER -> value

\* int(value) of IntegerField.get_prep_value, written like a payload integer
int(value) ==
  CASE value \in IntValues -> value
    [] value \in Digits -> "int " \o value
    [] OTHER -> NoValue

\* Conversation.save(): csat is a CharField and keeps str(value); nps is an
\* IntegerField and keeps int(value), and the save raises when value is not
\* a number; resolution is written as given.
can_save(field, value) == field = "nps" => int(value) # NoValue

to_column(field, value) ==
  IF field = "csat" THEN str(value)
  ELSE IF field = "nps" THEN int(value)
  ELSE value

\* adapters.conversation.update_conversation_data with to_update = {field: value}
update_conversation_data(W, field, value, project_uuid, contact_urn, channel_uuid, fault) ==
  LET S == ConvsOf(W, project_uuid, contact_urn, channel_uuid)
  IN IF S = {}
     THEN Result(W, FALSE, None)
     ELSE IF ~can_save(field, value)
     THEN Result(W, TRUE, None)
     ELSE
       LET c == MostRecent(S)
           original_resolution == W.convs[c].resolution
           W1 == [W EXCEPT !.convs[c][field] = to_column(field, value)]
           current_resolution == W1.convs[c].resolution
       IN IF original_resolution = IN_PROGRESS /\ current_resolution # IN_PROGRESS
          THEN migrate_and_classify(W1, c, fault)
          ELSE Result(W1, FALSE, c)

\* A plausible slip: has_chats_room is not looked at.
window_resolution_ignores_room(W, event, conversation) ==
  IF conversation # None THEN W.convs[conversation].resolution ELSE IN_PROGRESS

\* A plausible slip: the resolution of the existing conversation is not kept.
window_resolution_not_kept(W, event, conversation) ==
  IF event.has_chats_room THEN HAS_CHAT_ROOM ELSE IN_PROGRESS

\* "Determine resolution based on has_chats_room"; conversation is the
\* conversation found, or None.
window_resolution(W, event, conversation) ==
  IF event.has_chats_room THEN HAS_CHAT_ROOM
  ELSE IF conversation # None
       THEN W.convs[conversation].resolution
       ELSE IN_PROGRESS

\* ConversationWindowService.process_conversation_window
process_conversation_window(W, event, fault) ==
  IF event.channel_uuid = NoChannel
  THEN Result(W, FALSE, None)
  ELSE
    LET W1 == [W EXCEPT !.projects = @ \cup {event.project_uuid}]
        S == ConvsOf(W1, event.project_uuid, event.contact_urn, event.channel_uuid)
        conversation == IF S = {} THEN None ELSE MostRecent(S)
        resolution == window_resolution(W1, event, conversation)
        was_in_progress == /\ conversation # None
                           /\ W1.convs[conversation].resolution = IN_PROGRESS
        will_be_closed == resolution # IN_PROGRESS
        W2 == IF conversation # None
              THEN [W1 EXCEPT !.convs[conversation].has_chats_room = event.has_chats_room,
                              !.convs[conversation].resolution = resolution]
              ELSE CreateConversation(W1,
                     NewConversation(event.project_uuid, event.contact_urn,
                                     event.channel_uuid, resolution,
                                     event.has_chats_room))
        c == IF conversation # None THEN conversation ELSE Len(W2.convs)
    IN IF was_in_progress /\ will_be_closed
       THEN migrate_and_classify(W2, c, fault)
       ELSE Result(W2, FALSE, c)

----------------------------------------------------------------------------
\* Raw messages.  A raw message m has the SQS MessageId m.id, which is also
\* the text of its message (every published message has its own text), and
\* the fields of its body.
\*   json            FALSE: the body is not valid JSON
\*   event_type      of the attribute or the top-level field
\*   correlation_id  None when the body has none
\*   key, value      the special-event key and value, "" when absent
Shape(event_type, correlation, contact_urn, channel_uuid, created_at, key, value) ==
  [json |-> TRUE, event_type |-> event_type, correlation |-> correlation,
   project_uuid |-> "P1", contact_urn |-> contact_urn,
   channel_uuid |-> channel_uuid, created_at |-> created_at,
   key |-> key, value |-> value]

PayloadShapes ==
  {\* plain message events
   Shape("message.received", TRUE, "u1", "C1", 1, "", ""),
   Shape("message.received", TRUE, "u1", "C1", 2, "", ""),
   Shape("message.sent", TRUE, "u1", "C1", 1, "", ""),
   Shape("message.received", TRUE, "u2", "C1", 1, "", ""),
   \* no channel, no correlation id
   Shape("message.received", TRUE, "u1", NoChannel, 1, "", ""),
   Shape("message.sent", TRUE, "u1", NoChannel, 1, "", ""),
   Shape("message.sent", FALSE, "u1", "C1", 1, "", ""),
   \* a CSAT key with and without a value
   Shape("message.received", TRUE, "u1", "C1", 1, "weni_csat", "5"),
   Shape("message.received", TRUE, "u1", "C1", 1, "weni_csat", ""),
   \* an event type _process_message has no branch for
   Shape("conversation.window", TRUE, "u1", "C1", 1, "", ""),
   \* a body that is not JSON
   [Shape("message.received", TRUE, "u1", "C1", 1, "", "") EXCEPT !.json = FALSE]}

RawMessage(id, shape) ==
  [id |-> id, json |-> shape.json, event_type |-> shape.event_type,
   correlation_id |-> IF shape.correlation THEN id ELSE None,
   project_uuid |-> shape.project_uuid, contact_urn |-> shape.contact_urn,
   channel_uuid |-> shape.channel_uuid, text |-> id,
   created_at |-> shape.created_at, key |-> shape.key, value |-> shape.value]

\* MessageReceivedEvent.from_sqs_event / MessageSentEvent.from_sqs_event, for
\* a created_at that parses; the message carries no source of its own.
from_sqs_event(event_data) ==
  [correlation_id |-> event_data.correlation_id,
   project_uuid |-> event_data.project_uuid,
   contact_urn |-> event_data.contact_urn,
   channel_uuid |-> event_data.channel_uuid,
   message |-> [text |-> event_data.text, source |-> ""],
   timestamp |-> event_data.created_at]

\* s.strip() of a project, contact_urn or key: " " is the whitespace-only
\* string, the other strings of the model hold no whitespace
stripped(s) == IF s = " " THEN "" ELSE s

\* The DataLakeEventDTO.dict() CSATNPSService builds; the date is left out.
DataLakeEvent(project_uuid, contact_urn, key, value, agent_uuid, conversation_uuid) ==
  [event_name |-> "weni_nexus_data", project |-> stripped(project_uuid),
   contact_urn |-> stripped(contact_urn), key |-> stripped(key),
   value_type |-> "string",
   value |-> value,
   metadata |-> [agent_uuid |-> agent_uuid, conversation_uuid |-> conversation_uuid]]

\* what follows the update of the conversation (u is its result): the
\* data-lake event is built and enqueued, unless the update raised
send_csat_nps_event(u, key, agent_uuid, value, conversation, project_uuid, contact_urn) ==
  IF u.raised
  THEN Result(u.W, TRUE, None)
  ELSE Result([u.W EXCEPT !.datalake =
                 Append(@, DataLakeEvent(project_uuid, contact_urn, key,
                                         str(value), agent_uuid,
                                         conversation.uuid))],
              FALSE, None)

\* The common body of CSATNPSService.process_csat_event and process_nps_event.
process_csat_nps_event(W, field, key, agent_uuid, value, conversation, project_uuid, contact_urn) ==
  IF ~truthy(value)
  THEN Result(W, FALSE, None)
  ELSE send_csat_nps_event(
         IF conversation.channel_uuid # NoChannel
         THEN update_conversation_data(W, field, value, project_uuid, contact_urn,
                                       conversation.channel_uuid, "none")
         ELSE Result(W, FALSE, None),
         key, agent_uuid, value, conversation, project_uuid, contact_urn)

\* CSATNPSService.process_csat_event
process_csat_event(W, value, conversation, project_uuid, contact_urn) ==
  process_csat_nps_event(W, "csat", "weni_csat", "AGENT_UUID_CSAT", value,
                         conversation, project_uuid, contact_urn)

\* CSATNPSService.process_nps_event
process_nps_event(W, value, conversation, project_uuid, contact_urn) ==
  process_csat_nps_event(W, "nps", "weni_nps", "AGENT_UUID_NPS", value,
                         conversation, project_uuid, contact_urn)

\* MessageService._handle_special_events: an exception of the CSAT/NPS
\* processing is logged and swallowed.
handle_special_events(W, event_data, conversation, project_uuid, contact_urn) ==
  IF event_data.key = "" THEN W
  ELSE IF event_data.key = "weni_csat"
       THEN process_csat_event(W, event_data.value, conversation,
                               project_uuid, contact_urn).W
  ELSE IF event_data.key = "weni_nps"
       THEN process_nps_event(W, event_data.value, conversation,
                              project_uuid, contact_urn).W
  ELSE W

\* A plausible slip: an exception of the CSAT/NPS processing leaves
\* _handle_special_events.
process_saved_raising(s, event_data, conversation, event) ==
  IF s.raised
  THEN Result(s.W, TRUE, None)
  ELSE IF event_data.key \in {"weni_csat", "weni_nps"}
            /\ truthy(event_data.value)
            /\ conversation.channel_uuid # NoChannel
            /\ ~can_save(IF event_data.key = "weni_csat" THEN "csat" ELSE "nps",
                         event_data.value)
       THEN Result(s.W, TRUE, None)
       ELSE Result(handle_special_events(s.W, event_data, conversation,
                                         event.project_uuid, event.contact_urn),
                   FALSE, conversation.uuid)

\* The common body of MessageService.process_message_received and
\* process_message_sent.
\* Its parts: what follows the save (s is the result of the save), what
\* follows ensure_conversation_exists (e is its result), and the whole.
process_saved(s, event_data, conversation, event) ==
  IF s.raised
  THEN Result(s.W, TRUE, None)
  ELSE Result(handle_special_events(s.W, event_data, conversation,
                                    event.project_uuid, event.contact_urn),
              FALSE, conversation.uuid)

process_ensured(e, event_data, event, default_source, uid, fault) ==
  IF e.ret = None
  THEN Result(e.W, FALSE, None)
  ELSE LET conversation == ConversationObject(e.W, e.ret)
       IN process_saved(save_message(e.W, conversation, event, default_source,
                                     uid, fault),
                        event_data, conversation, event)

process_message(W, event_data, default_source, uid, fault) ==
  LET event == from_sqs_event(event_data)
  IN process_ensured(ensure_conversation_exists(W, event.project_uuid,
                                                event.contact_urn,
                                                event.channel_uuid),
                     event_data, event, default_source, uid, fault)

\* MessageService.process_message_received
process_message_received(W, event_data, uid, fault) ==
  process_message(W, event_data, "incoming", uid, fault)

\* MessageService.process_message_sent
process_message_sent(W, event_data, uid, fault) ==
  process_message(W, event_data, "outgoing", uid, fault)

----------------------------------------------------------------------------
\* ConversationSQSConsumer._process_message.  ret.receipt: the receipt handle
\* is returned (the message goes to the batch delete); ret.deleted: the
\* message was deleted by _process_message itself; ret.outcome: how it ended.
Handled(receipt, deleted, how) ==
  [receipt |-> receipt, deleted |-> deleted, outcome |-> how]

\* the event types _process_message has a handler for
MessageTypes == {"message.received", "message.sent"}

\* the end of _process_message; r is the result of the handler; the outcome
\* tells apart the three ways of ending without an exception: the handler
\* stored the message ("processed"), the handler returned because the
\* channel_uuid is missing ("skipped"), no handler was called ("unknown")
processed_or_raised(r, message) ==
  IF r.raised
  THEN Result(r.W, TRUE, Handled(FALSE, FALSE, "error"))
  ELSE Result([r.W EXCEPT !.processed = @ \cup {message.correlation_id}],
              FALSE,
              Handled(TRUE, FALSE,
                      IF message.event_type \notin MessageTypes THEN "unknown"
                      ELSE IF r.ret = None THEN "skipped"
                      ELSE "processed"))

\* A plausible slip: the last branch is a handler instead of the warning.
route_default_received(W, message, uid, fault) ==
  IF message.event_type = "message.sent"
  THEN process_message_sent(W, message, uid, fault)
  ELSE process_message_received(W, message, uid, fault)

\* the if / elif / else of _process_message on event_type: any other type
\* is logged as unknown and no handler is called
route(W, message, uid, fault) ==
  IF message.event_type = "message.received"
  THEN process_message_received(W, message, uid, fault)
  ELSE IF message.event_type = "message.sent"
  THEN process_message_sent(W, message, uid, fault)
  ELSE Result(W, FALSE, None)

\* _process_message once json.loads has returned the payload
process_decoded(W, message, uid, fault) ==
  IF message.correlation_id \in W.processed
  THEN Result(W, FALSE, Handled(FALSE, FALSE, "duplicate"))
  ELSE processed_or_raised(route(W, message, uid, fault), message)

\* A plausible slip: a body that does not decode is handled like any other.
process_one_message_undecoded(W, message, uid, fault) ==
  process_decoded(W, message, uid, fault)

process_one_message(W, message, uid, fault) ==
  IF ~message.json
  THEN Result(W, FALSE, Handled(FALSE, TRUE, "poison"))
  ELSE process_decoded(W, message, uid, fault)

\* The for loop of start_consuming over a received batch: the messages are
\* handled one after the other; acc collects successful_messages,
\* failed_messages, the messages _process_message deleted and the outcomes.
\* r is the result of _process_message for the message
collect(acc, message, r) ==
  [W |-> r.W,
   successful |-> IF r.ret.receipt THEN acc.successful \cup {message.id}
                  ELSE acc.successful,
   failed |-> IF r.raised THEN acc.failed \cup {message.id} ELSE acc.failed,
   deleted |-> IF r.ret.deleted THEN acc.deleted \cup {message.id}
               ELSE acc.deleted,
   outcome |-> [acc.outcome EXCEPT ![message.id] = r.ret.outcome]]

RECURSIVE process_batch(_, _, _, _)
process_batch(acc, batch, uids, faults) ==
  IF batch = <<>> THEN acc
  ELSE
    LET message == Head(batch)
    IN process_batch(
         collect(acc, message,
                 process_one_message(acc.W, message, uids[message.id],
                                     faults[message.id])),
         Tail(batch), uids, faults)

----------------------------------------------------------------------------
\* State after construction: empty stores, an empty queue, a fresh consumer.
NoPending == <<>>

NoCall == [op |-> "none", args |-> <<>>, ret |-> None, rep |-> 1]

Init ==
  /\ projects = {}
  /\ convs = <<>>
  /\ archive = {}
  /\ classifications = <<>>
  /\ hot = {}
  /\ jobs = <<>>
  /\ datalake = <<>>
  /\ processed = {}
  /\ queue = <<>>
  /\ published = 0
  /\ written = <<>>
  /\ outcome = [id \in 1 .. MaxRaw |-> "none"]
  /\ last = NoCall
  /\ pending = NoPending

SetWorld(W) ==
  /\ projects' = W.projects
  /\ convs' = W.convs
  /\ archive' = W.archive
  /\ classifications' = W.classifications
  /\ hot' = W.hot
  /\ jobs' = W.jobs
  /\ datalake' = W.datalake
  /\ processed' = W.processed
  /\ written' = W.written

\* The record of a direct call of a service entry point: rep = 2 when it
\* repeats the call before it with nothing in between.
Call(op, args, ret) ==
  [op |-> op, args |-> args, ret |-> ret,
   rep |-> IF last.op = op THEN (IF last.args = args THEN 2 ELSE 1) ELSE 1]

\* the (project, contact_urn, channel_uuid) of the direct calls and of the
\* second consumer's event
Tuples == Projects \X {"u1"} \X (Channels \cup {NoChannel})
Faults == {"none", "dynamo"}
UpdateValues == {RESOLVED}   \* the resolutions a direct update sets

\* A producer publishes a raw message.
Publish ==
  /\ published < MaxRaw
  /\ \E shape \in PayloadShapes :
       queue' = Append(queue, RawMessage(published + 1, shape))
  /\ published' = published + 1
  /\ UNCHANGED <<projects, convs, archive, classifications, hot, jobs, datalake, processed,
                 written, outcome, last, pending>>

\* One iteration of the loop of start_consuming: receive the first k
\* messages, handle them in order, batch-delete the successful ones (with the
\* one-by-one fallback when the batch delete raises) and delete the failed
\* ones.  batch_raises: delete_message_batch raises; batch_failed: entries it
\* reports as failed without raising; single_failed: messages whose
\* delete_message raises.
\* acc is what the for loop collected.
Deletes(acc, call, batch_raises, batch_failed, single_failed) ==
  LET gone == acc.deleted
              \cup (IF batch_raises THEN acc.successful \ single_failed
                    ELSE acc.successful \ batch_failed)
              \cup (acc.failed \ single_failed)
  IN /\ SetWorld(acc.W)
     /\ outcome' = acc.outcome
     /\ queue' = SelectSeq(queue, LAMBDA m : m.id \notin gone)
     /\ last' = call
     /\ UNCHANGED <<published, pending>>

\* what the for loop starts from
NothingCollected ==
  [W |-> World, successful |-> {}, failed |-> {}, deleted |-> {},
   outcome |-> outcome]

\* A plausible slip: the batch is handled newest message first.
\* call is the record of the iteration kept in last.
Iteration_newest_first(k, uids, faults, call, batch_raises, batch_failed, single_failed) ==
  Deletes(process_batch(NothingCollected,
                        [i \in 1 .. k |-> queue[k + 1 - i]], uids, faults),
          call, batch_raises, batch_failed, single_failed)

Iteration(k, uids, faults, call, batch_raises, batch_failed, single_failed) ==
  Deletes(process_batch(NothingCollected, SubSeq(queue, 1, k), uids, faults),
          call, batch_raises, batch_failed, single_failed)

BatchIds(k) == {queue[i].id : i \in 1 .. k}

UuidChoices(k) == [BatchIds(k) -> UuidRanks]

CanReceive(k) ==
  /\ k \in 1 .. Min(ReceiveMax, Len(queue))
  /\ Len(convs) + k <= MaxConvs
  /\ Cardinality(hot) + k <= MaxHot

\* An iteration in which every call to DynamoDB and SQS succeeds.
Poll ==
  \E k \in 1 .. MaxRaw :
    /\ CanReceive(k)
    /\ \E uids \in UuidChoices(k) :
         Iteration(k, uids, [id \in BatchIds(k) |-> "none"], NoCall,
                   FALSE, {}, {})

\* An iteration in which a put_item, the batch delete or a single delete
\* fails; kept is the set of messages no delete call removes.  The faulty
\* iterations are those that received up to MaxFaultyBatch messages.
PollFaulty ==
  \E k \in 1 .. MaxFaultyBatch :
    /\ CanReceive(k)
    /\ \E uids \in UuidChoices(k), faults \in [BatchIds(k) -> Faults],
          batch_raises \in BOOLEAN, kept \in SUBSET BatchIds(k) :
         /\ \/ \E id \in BatchIds(k) : faults[id] # "none"
            \/ batch_raises
            \/ kept # {}
         /\ Iteration(k, uids, faults, NoCall, batch_raises,
                      IF batch_raises THEN {} ELSE kept, kept)

\* The consumer process is restarted: its processed_messages start empty.
Restart ==
  /\ processed # {}
  /\ processed' = {}
  /\ last' = NoCall
  /\ UNCHANGED <<projects, convs, archive, classifications, hot, jobs, datalake, queue,
                 published, written, outcome, pending>>

\* The conversation.window events: those of the contact u1.
WindowEvents ==
  [project_uuid : Projects, contact_urn : {"u1"},
   channel_uuid : Channels \cup {NoChannel}, has_chats_room : BOOLEAN]

DeliverWindow(event, fault) ==
  /\ Len(convs) < MaxConvs
  /\ LET r == process_conversation_window(World, event, fault)
     IN /\ SetWorld(r.W)
        /\ last' = NoCall
  /\ UNCHANGED <<queue, published, outcome, pending>>

\* A conversation.window event is handed to ConversationWindowService.
WindowEvent ==
  \E event \in WindowEvents : DeliverWindow(event, "none")

Next == Publish \/ Poll \/ WindowEvent

Spec == Init /\ [][Next]_vars

\* The consumer with failing calls, redelivery and restarts.
NextFault == Publish \/ Poll \/ PollFaulty \/ Restart

SpecFault == Init /\ [][NextFault]_vars

----------------------------------------------------------------------------
\* Direct calls of the service entry points, as the unit tests make them.

\* MainConversationService().ensure_conversation_exists(...)
EnsureCall ==
  /\ Len(convs) < MaxConvs
  /\ \E t \in Tuples :
       LET r == ensure_conversation_exists(World, t[1], t[2], t[3])
       IN /\ SetWorld(r.W)
          /\ last' = Call("ensure_conversation_exists", t, r.ret)
  /\ UNCHANGED <<queue, published, outcome, pending>>

\* The event a test hands to save_received_message / save_sent_message for
\* the conversation c; its text 0 is the text of no queued message, and its
\* message names its source.
DirectEvent(c) ==
  [correlation_id |-> None, project_uuid |-> convs[c].project,
   contact_urn |-> convs[c].contact_urn, channel_uuid |-> convs[c].channel_uuid,
   message |-> [text |-> 0, source |-> "incoming"], timestamp |-> 1]

\* ret of a save call: the number of items it added to the hot store, -1
\* when it raised.
SaveCall(op, c, r) ==
  /\ SetWorld(r.W)
  /\ last' = Call(op, <<c, convs[c].resolution>>,
                  IF r.raised THEN -1
                  ELSE Cardinality(r.W.hot) - Cardinality(hot))
  /\ UNCHANGED <<queue, published, outcome, pending>>

\* MessageRepository().save_received_message(conversation, event)
SaveReceivedCall ==
  /\ Cardinality(hot) < MaxHot
  /\ \E c \in DOMAIN convs, uid \in UuidRanks, fault \in Faults :
       SaveCall("save_received_message", c,
                save_received_message(World, ConversationObject(World, c),
                                      DirectEvent(c), uid, fault))

\* MessageRepository().save_sent_message(conversation, event)
SaveSentCall ==
  /\ Cardinality(hot) < MaxHot
  /\ \E c \in DOMAIN convs, uid \in UuidRanks, fault \in Faults :
       SaveCall("save_sent_message", c,
                save_sent_message(World, ConversationObject(World, c),
                                  DirectEvent(c), uid, fault))

\* MessageMigrationService().migrate_conversation_messages_to_postgres(conversation)
MigrateCall ==
  /\ \E c \in DOMAIN convs :
       LET r == migrate_conversation_messages_to_postgres(World, c, "none")
       IN /\ SetWorld(r.W)
          /\ last' = Call("migrate_conversation_messages_to_postgres", <<c>>, r.ret)
  /\ UNCHANGED <<queue, published, outcome, pending>>

\* update_conversation_data(to_update={"resolution": value}, ...)
UpdateCall ==
  /\ Len(jobs) < MaxJobs
  /\ \E t \in Tuples, value \in UpdateValues :
       LET r == update_conversation_data(World, "resolution", value,
                                         t[1], t[2], t[3], "none")
       IN /\ SetWorld(r.W)
          /\ last' = Call("update_conversation_data", <<t, value>>, r.ret)
  /\ UNCHANGED <<queue, published, outcome, pending>>

\* The updates a caller asks for: a resolution that closes and a csat.
FieldUpdates == {<<"resolution", RESOLVED>>, <<"csat", "5">>}

\* update_conversation_data(to_update={field: value}, ...); with fault =
\* "dynamo" the migration it may start fails.
UpdateWith(fault) ==
  /\ Len(jobs) < MaxJobs
  /\ \E t \in Tuples, update \in FieldUpdates :
       LET r == update_conversation_data(World, update[1], update[2],
                                         t[1], t[2], t[3], fault)
       IN /\ SetWorld(r.W)
          /\ last' = Call("update_conversation_data", <<t, update, fault>>,
                          [raised |-> r.raised, ret |-> r.ret])
  /\ UNCHANGED <<queue, published, outcome, pending>>

UpdateFieldCall == UpdateWith("none")

\* save_received_message for a conversation, every call of DynamoDB succeeding
WriteCall ==
  /\ Cardinality(hot) < MaxHot
  /\ \E c \in DOMAIN convs :
       SaveCall("save_received_message", c,
                save_received_message(World, ConversationObject(World, c),
                                      DirectEvent(c), 1, "none"))

\* Conversations are created, written to and updated.
NextUpdate == EnsureCall \/ WriteCall \/ UpdateFieldCall

SpecUpdate == Init /\ [][NextUpdate]_vars

\* The services called directly.
NextApi ==
  EnsureCall \/ SaveReceivedCall \/ SaveSentCall \/ MigrateCall \/ UpdateCall

SpecApi == Init /\ [][NextApi]_vars

----------------------------------------------------------------------------
\* ConversationWindowService().process_conversation_window(event_data)
WindowCall ==
  /\ Len(convs) < MaxConvs
  /\ \E event \in WindowEvents :
       LET r == process_conversation_window(World, event, "none")
       IN /\ SetWorld(r.W)
          /\ last' = Call("process_conversation_window", <<event>>, r.ret)
  /\ UNCHANGED <<queue, published, outcome, pending>>

\* The operations on the fields of a conversation, called directly.
NextFields == EnsureCall \/ WindowCall \/ UpdateCall

SpecFields == Init /\ [][NextFields]_vars

\* the event types of the first k messages of the queue
Received(k) ==
  [i \in 1 .. k |-> IF queue[i].json THEN queue[i].event_type ELSE "undecodable"]

\* One iteration of the consumer, recorded with the event types of the
\* messages it received.
ConsumeCall ==
  \E k \in 1 .. MaxRaw :
    /\ CanReceive(k)
    /\ \E uids \in UuidChoices(k) :
         Iteration(k, uids, [id \in BatchIds(k) |-> "none"],
                   Call("start_consuming", Received(k), None), FALSE, {}, {})

\* The producer and the consumer alone.
NextBatch == Publish \/ ConsumeCall

SpecBatch == Init /\ [][NextBatch]_vars

\* One payload for each event_type a producer may send: the three of the
\* contract, one that is none of them, and a payload without event_type.
TypedShapes ==
  {Shape(type, TRUE, "u1", "C1", 1, "", "") :
     type \in {"message.received", "message.sent", "conversation.window",
               "unknown.event.type", NoValue}}

PublishTyped ==
  /\ published < MaxRaw
  /\ \E shape \in TypedShapes :
       queue' = Append(queue, RawMessage(published + 1, shape))
  /\ published' = published + 1
  /\ UNCHANGED <<projects, convs, archive, classifications, hot, jobs, datalake, processed,
                 written, outcome, last, pending>>

\* The consumer fed with every event type.
NextRouting == PublishTyped \/ ConsumeCall

SpecRouting == Init /\ [][NextRouting]_vars

\* The payloads with a special-event key: each key with a string, an empty
\* string, no value, a string that is no number, and the integers 0 and 9.
SpecialValues == {"5", "", NoValue, "abc"} \cup IntValues

\* and a CSAT event whose payload has no contact_urn ("", the default of
\* from_sqs_event) or a whitespace-only one
SpecialShapes ==
  {Shape(type, TRUE, "u1", "C1", 1, key, value) :
     type \in MessageTypes, key \in {"weni_csat", "weni_nps"},
     value \in SpecialValues}
  \cup {Shape("message.received", TRUE, urn, "C1", 1, "weni_csat", "5") :
          urn \in {"", " "}}

PublishSpecial ==
  /\ published < MaxRaw
  /\ \E shape \in SpecialShapes :
       queue' = Append(queue, RawMessage(published + 1, shape))
  /\ published' = published + 1
  /\ UNCHANGED <<projects, convs, archive, classifications, hot, jobs, datalake, processed,
                 written, outcome, last, pending>>

\* The consumer fed with CSAT and NPS events.
NextSpecial == PublishSpecial \/ ConsumeCall

SpecSpecial == Init /\ [][NextSpecial]_vars

----------------------------------------------------------------------------
\* DataLakeEventDTO.  A string field is None or a string, written as a
\* record: none tells None apart, chars are its characters, of which " " is
\* the whitespace and "a" any other character.
Null == [none |-> TRUE, chars |-> <<>>]

Text(chars) == [none |-> FALSE, chars |-> chars]

Chars == {" ", "a"}

Strings == UNION {[1 .. n -> Chars] : n \in 0 .. MaxLen}

Fields == {Null} \cup {Text(chars) : chars \in Strings}

\* the fields validate() loops over, in the order of string_fields
StringFields == <<"project", "contact_urn", "key", "date", "value_type">>

EventNames == {"weni_nexus_data", "wrong_event"}

DTOs ==
  [event_name : EventNames, date : Fields, project : Fields,
   contact_urn : Fields, key : Fields, value_type : Fields,
   value : {Null, Text(<<>>), Text(<<"a">>)}]

\* A plausible slip: the field is not trimmed.
strip_nothing(chars) == chars

\* str.strip(): leading and trailing whitespace removed
RECURSIVE strip(_)
strip(chars) ==
  IF chars = <<>> THEN <<>>
  ELSE IF Head(chars) = " " THEN strip(Tail(chars))
  ELSE IF chars[Len(chars)] = " " THEN strip(SubSeq(chars, 1, Len(chars) - 1))
  ELSE chars

\* "not field_value or not str(field_value).strip()"
cannot_be_empty(field_value) ==
  \/ field_value.none
  \/ field_value.chars = <<>>
  \/ strip(field_value.chars) = <<>>

\* the errors list of validate(), in the order the checks append to it
RECURSIVE field_errors(_, _)
field_errors(dto, names) ==
  IF names = <<>> THEN <<>>
  ELSE (IF cannot_be_empty(dto[Head(names)])
        THEN <<Head(names) \o " cannot be empty">> ELSE <<>>)
       \o field_errors(dto, Tail(names))

\* DataLakeEventDTO.validate: raised when errors is not empty; the message
\* of the ValueError is the errors joined by ", "
validate(dto) ==
  LET errors == field_errors(dto, StringFields)
                  \o (IF dto.value.none THEN <<"value cannot be None">> ELSE <<>>)
                  \o (IF dto.event_name # "weni_nexus_data"
                      THEN <<"event_name must be \"weni_nexus_data\"">> ELSE <<>>)
  IN [raised |-> errors # <<>>, errors |-> errors]

\* A data-lake event is built,
InitValidate ==
  /\ projects = {}
  /\ convs = <<>>
  /\ archive = {}
  /\ classifications = <<>>
  /\ hot = {}
  /\ jobs = <<>>
  /\ datalake = <<>>
  /\ processed = {}
  /\ queue = <<>>
  /\ published = 0
  /\ written = <<>>
  /\ outcome = [id \in 1 .. MaxRaw |-> "none"]
  /\ \E dto \in DTOs :
       last = [op |-> "DataLakeEventDTO", args |-> <<dto>>, ret |-> None, rep |-> 1]
  /\ pending = NoPending

\* and validated.
ValidateCall ==
  /\ last.op = "DataLakeEventDTO"
  /\ last' = Call("validate", last.args, validate(last.args[1]))
  /\ UNCHANGED <<projects, convs, archive, classifications, hot, jobs, datalake, processed,
                 queue, published, written, outcome, pending>>

SpecValidate == InitValidate /\ [][ValidateCall]_vars

----------------------------------------------------------------------------
\* A second consumer handles a message.received event (text 0, created_at 1)
\* of a tuple while the first one runs: ensure_conversation_exists tests
\* exists() and creates the conversation in two queries, with no transaction
\* and no lock around them.

\* The second consumer got the project and found no conversation in progress.
RaceLookup ==
  /\ pending = NoPending
  /\ \E t \in {u \in Tuples : u[3] # NoChannel} :
       /\ conversation_queryset(World, t[1], t[2], t[3]) = {}
       /\ pending' = t
       /\ projects' = projects \cup {t[1]}
  /\ last' = NoCall
  /\ UNCHANGED <<convs, archive, classifications, hot, jobs, datalake, processed, queue,
                 published, written, outcome>>

\* It creates its conversation and stores its message for it.
RaceCreate ==
  /\ pending # NoPending
  /\ Len(convs) < MaxConvs
  /\ Cardinality(hot) < MaxHot
  /\ \E uid \in UuidRanks :
       LET W1 == CreateConversation(World,
                   NewConversation(pending[1], pending[2], pending[3],
                                   IN_PROGRESS, FALSE))
           c == Len(W1.convs)
           event == [correlation_id |-> None, project_uuid |-> pending[1],
                     contact_urn |-> pending[2], channel_uuid |-> pending[3],
                     message |-> [text |-> 0, source |-> ""], timestamp |-> 1]
           r == save_received_message(W1, ConversationObject(W1, c), event,
                                      uid, "none")
       IN SetWorld(r.W)
  /\ pending' = NoPending
  /\ last' = NoCall
  /\ UNCHANGED <<queue, published, outcome>>

\* Two consumers.
NextRace == Publish \/ Poll \/ RaceLookup \/ RaceCreate

SpecRace == Init /\ [][NextRace]_vars

----------------------------------------------------------------------------
\* Billing: DatabaseResolutionCounter counts the conversations of a project
\* created on a date, per channel.

BilledProjects == {"P1", "P2"}
BilledChannels == {"C1", "C2"}
Dates == 0 .. 1
Hours == {1, 23, 25}      \* created_at, in hours: two instants of day 0, one of day 1

\* created_at__date
date(created_at) == created_at \div 24

Row(project, channel_uuid, resolution, has_chats_room, created_at) ==
  [project |-> project, channel_uuid |-> channel_uuid,
   resolution |-> resolution, has_chats_room |-> has_chats_room,
   created_at |-> created_at]

\* The conversations a table holds: every resolution on every channel of P1
\* and with no channel, one of them with a chat room, one of another
\* project, one later the same day and one the day after.
Rows ==
  {Row("P1", ch, res[1], res[2], 1) :
     ch \in BilledChannels \cup {NoChannel},
     res \in {<<RESOLVED, FALSE>>, <<RESOLVED, TRUE>>, <<UNRESOLVED, FALSE>>,
              <<IN_PROGRESS, FALSE>>, <<UNCLASSIFIED, FALSE>>,
              <<HAS_CHAT_ROOM, FALSE>>}}
  \cup {Row("P2", "C1", RESOLVED, FALSE, 1), Row("P1", "C1", RESOLVED, FALSE, 23),
        Row("P1", "C1", RESOLVED, FALSE, 25)}

Tables == UNION {[1 .. n -> Rows] : n \in 0 .. MaxRows}

ChannelResolutionCount(channel_uuid) ==
  [channel_uuid |-> channel_uuid, resolved |-> 0, unresolved |-> 0,
   has_chats_rooms |-> 0, unclassified |-> 0]

\* .filter(project_id=..., channel_uuid__isnull=False, created_at__date=...)
filter(row, project_uuid, target_date) ==
  /\ row.project = project_uuid
  /\ row.channel_uuid # NoChannel
  /\ date(row.created_at) = target_date

\* has_chats_rooms counting the resolution only
annotate_resolution_only(group, row) ==
  [group EXCEPT
     !.resolved = @ + (IF row.resolution = RESOLVED THEN 1 ELSE 0),
     !.unresolved = @ + (IF row.resolution = UNRESOLVED THEN 1 ELSE 0),
     !.has_chats_rooms = @ + (IF row.resolution = HAS_CHAT_ROOM THEN 1 ELSE 0),
     !.unclassified = @ + (IF row.resolution = UNCLASSIFIED THEN 1 ELSE 0)]

\* .annotate(...): the row counted by each Count whose filter it satisfies
annotate(group, row) ==
  [group EXCEPT
     !.resolved = @ + (IF row.resolution = RESOLVED THEN 1 ELSE 0),
     !.unresolved = @ + (IF row.resolution = UNRESOLVED THEN 1 ELSE 0),
     !.has_chats_rooms =
        @ + (IF row.resolution = HAS_CHAT_ROOM \/ row.has_chats_room THEN 1 ELSE 0),
     !.unclassified = @ + (IF row.resolution = UNCLASSIFIED THEN 1 ELSE 0)]

\* .values("channel_uuid"): GROUP BY channel_uuid, one group per value, the
\* groups here in the order their first row is met (the query has no ORDER BY)
RECURSIVE values(_, _, _)
values(rows, i, groups) ==
  IF i > Len(rows) THEN groups
  ELSE LET row == rows[i]
           at == {g \in DOMAIN groups : groups[g].channel_uuid = str(row.channel_uuid)}
       IN values(rows, i + 1,
                 IF at = {}
                 THEN Append(groups,
                             annotate(ChannelResolutionCount(str(row.channel_uuid)), row))
                 ELSE [g \in DOMAIN groups |->
                         IF g \in at THEN annotate(groups[g], row) ELSE groups[g]])

get_all_channels_counts(table, project_uuid, target_date) ==
  values(SelectSeq(table, LAMBDA row : filter(row, project_uuid, target_date)), 1, <<>>)

\* The table as some history left it,
InitCount ==
  /\ projects = BilledProjects
  /\ convs \in Tables
  /\ archive = {}
  /\ classifications = <<>>
  /\ hot = {}
  /\ jobs = <<>>
  /\ datalake = <<>>
  /\ processed = {}
  /\ queue = <<>>
  /\ published = 0
  /\ written = <<>>
  /\ outcome = [id \in 1 .. MaxRaw |-> "none"]
  /\ last = NoCall
  /\ pending = NoPending

\* and counted for a project and a date.
CountCall ==
  /\ \E project_uuid \in BilledProjects, target_date \in Dates :
       last' = Call("get_all_channels_counts", <<project_uuid, target_date>>,
                    get_all_channels_counts(convs, project_uuid, target_date))
  /\ UNCHANGED <<projects, convs, archive, classifications, hot, jobs, datalake, processed,
                 queue, published, written, outcome, pending>>

SpecCount == InitCount /\ [][CountCall]_vars

----------------------------------------------------------------------------
\* The expiry of a hot-store item. time.time() is a float of seconds; the
\* clock here ticks twice a second, so that int() has a fraction to drop.

TicksPerSecond == 2
Instants == 0 .. MaxClock

\* ttl_hours=48 of both callers of storage_message
ttl_hours == 48

\* int(time.time())
int_time(now) == now \div TicksPerSecond

\* an item that expires the second it is written
ttl_timestamp_no_hours(now, hours) == int_time(now)

\* ttl_timestamp = int(time.time()) + (ttl_hours * 3600), in seconds
ttl_timestamp(now, hours) == int_time(now) + (hours * 3600)

\* A save whose storage_message read the clock at now and whose put_item
\* wrote at put_at; ret is the number of items written and their ExpiresOn.
PutCall(caller, c, r, now, put_at) ==
  /\ SetWorld(r.W)
  /\ last' = Call("storage_message", <<caller, c, now, put_at>>,
                  [items |-> Cardinality(r.W.hot) - Cardinality(hot),
                   ExpiresOn |-> ttl_timestamp(now, ttl_hours)])
  /\ UNCHANGED <<queue, published, outcome, pending>>

StoreReceived ==
  /\ Cardinality(hot) < MaxHot
  /\ \E c \in DOMAIN convs, now \in Instants, delay \in 0 .. MaxDelay :
       PutCall("save_received_message", c,
               save_received_message(World, ConversationObject(World, c),
                                     DirectEvent(c), 1, "none"),
               now, now + delay)

StoreSent ==
  /\ Cardinality(hot) < MaxHot
  /\ \E c \in DOMAIN convs, now \in Instants, delay \in 0 .. MaxDelay :
       PutCall("save_sent_message", c,
               save_sent_message(World, ConversationObject(World, c),
                                 DirectEvent(c), 1, "none"),
               now, now + delay)

NextTtl == EnsureCall \/ StoreReceived \/ StoreSent

SpecTtl == Init /\ [][NextTtl]_vars

----------------------------------------------------------------------------
\* A migration during which a store fails.

MigrationFaults == {"dynamo", "postgres"}

\* migrate_conversation_messages_to_postgres(conversation) while the query
\* of the hot store or the upsert of the row raises; ret is -1 when the call
\* raised.
MigrateFaulty ==
  /\ \E c \in DOMAIN convs, fault \in MigrationFaults :
       LET r == migrate_conversation_messages_to_postgres(World, c, fault)
       IN /\ SetWorld(r.W)
          /\ last' = Call("migrate_conversation_messages_to_postgres", <<c, fault>>,
                          IF r.raised THEN -1 ELSE r.ret)
  /\ UNCHANGED <<queue, published, outcome, pending>>

NextMigrate ==
  EnsureCall \/ SaveReceivedCall \/ SaveSentCall \/ MigrateCall \/ MigrateFaulty

SpecMigrate == Init /\ [][NextMigrate]_vars

----------------------------------------------------------------------------
\* A conversation is closed while the migration fails.

\* update_conversation_data(to_update={"resolution": 0}, ...) with a
\* failing store
UpdateFaulty ==
  /\ Len(jobs) < MaxJobs
  /\ \E t \in Tuples, fault \in MigrationFaults :
       LET r == update_conversation_data(World, "resolution", RESOLVED,
                                         t[1], t[2], t[3], fault)
       IN /\ SetWorld(r.W)
          /\ last' = Call("update_conversation_data",
                          <<t, <<"resolution", RESOLVED>>, fault>>,
                          [raised |-> r.raised, ret |-> r.ret])
  /\ UNCHANGED <<queue, published, outcome, pending>>

\* process_conversation_window(event_data) of a contact that has a
\* conversation and a chat room, with a failing store
WindowFaulty ==
  /\ \E event \in WindowEvents, fault \in MigrationFaults :
       /\ event.has_chats_room
       /\ ConvsOf(World, event.project_uuid, event.contact_urn, event.channel_uuid) # {}
       /\ LET r == process_conversation_window(World, event, fault)
          IN /\ SetWorld(r.W)
             /\ last' = Call("process_conversation_window", <<event, fault>>,
                             [raised |-> r.raised, ret |-> r.ret])
  /\ UNCHANGED <<queue, published, outcome, pending>>

\* ensure_conversation_exists(...) for a contact that has no conversation yet
OpenCall ==
  /\ \E t \in Tuples :
       /\ ConvsOf(World, t[1], t[2], t[3]) = {}
       /\ LET r == ensure_conversation_exists(World, t[1], t[2], t[3])
          IN /\ SetWorld(r.W)
             /\ last' = Call("ensure_conversation_exists", t, r.ret)
  /\ UNCHANGED <<queue, published, outcome, pending>>

NextClose == OpenCall \/ WriteCall \/ UpdateFaulty \/ WindowFaulty

SpecClose == Init /\ [][NextClose]_vars

----------------------------------------------------------------------------
\* Scores the nps column can and cannot take.

ScoredShapes ==
  {Shape(type, TRUE, "u1", "C1", 1, key, value) :
     type \in MessageTypes, key \in {"weni_csat", "weni_nps"},
     value \in {"abc", "9", ""}}

PublishScored ==
  /\ published < MaxRaw
  /\ \E shape \in ScoredShapes :
       queue' = Append(queue, RawMessage(published + 1, shape))
  /\ published' = published + 1
  /\ UNCHANGED <<projects, convs, archive, classifications, hot, jobs, datalake, processed,
                 written, outcome, last, pending>>

\* the keys and values of the first k messages of the queue
Scored(k) == [i \in 1 .. k |-> <<queue[i].id, queue[i].key, queue[i].value>>]

\* One iteration of the consumer, recorded with the scores it received.
ConsumeScored ==
  \E k \in 1 .. MaxRaw :
    /\ CanReceive(k)
    /\ \E uids \in UuidChoices(k) :
         Iteration(k, uids, [id \in BatchIds(k) |-> "none"],
                   Call("start_consuming", Scored(k), None), FALSE, {}, {})

NextScored == PublishScored \/ ConsumeScored

SpecScored == Init /\ [][NextScored]_vars

----------------------------------------------------------------------------
\* The deletes that end an iteration.  delete_message_batch either raises
\* or returns, and when it returns its response lists the entries it could
\* not delete; every delete_message succeeds.
ConsumeDeleting ==
  \E k \in 1 .. MaxRaw :
    /\ CanReceive(k)
    /\ \E uids \in UuidChoices(k), batch_raises \in BOOLEAN,
          batch_failed \in SUBSET BatchIds(k) :
         /\ batch_raises => batch_failed = {}
         /\ Iteration(k, uids, [id \in BatchIds(k) |-> "none"],
                      Call("delete_message_batch", <<batch_raises, batch_failed>>, None),
                      batch_raises, batch_failed, {})

NextDelete == PublishTyped \/ ConsumeDeleting

SpecDelete == Init /\ [][NextDelete]_vars

----------------------------------------------------------------------------
\* A consumer handles a message.received event (text 0, created_at 1) while
\* another process handles conversation.window events: process_message_received
\* loads the conversation with ensure_conversation_exists and hands the
\* loaded object to save_received_message, which tests the resolution of
\* that object and calls put_item; nothing is locked in between.

\* The consumer has its conversation: pending holds the object it loaded.
MessageEnsure ==
  /\ pending = NoPending
  /\ Len(convs) < MaxConvs
  /\ \E t \in {u \in Tuples : u[3] # NoChannel} :
       LET r == ensure_conversation_exists(World, t[1], t[2], t[3])
       IN /\ SetWorld(r.W)
          /\ pending' = <<ConversationObject(r.W, r.ret)>>
  /\ last' = NoCall
  /\ UNCHANGED <<queue, published, outcome>>

\* It saves its message for the conversation it loaded.
MessageSave ==
  /\ pending # NoPending
  /\ Cardinality(hot) < MaxHot
  /\ \E uid \in UuidRanks :
       LET conversation == pending[1]
           event == [correlation_id |-> None, project_uuid |-> conversation.project,
                     contact_urn |-> conversation.contact_urn,
                     channel_uuid |-> conversation.channel_uuid,
                     message |-> [text |-> 0, source |-> ""], timestamp |-> 1]
           r == save_received_message(World, conversation, event, uid, "none")
       IN SetWorld(r.W)
  /\ pending' = NoPending
  /\ last' = NoCall
  /\ UNCHANGED <<queue, published, outcome>>

\* A message consumer and the window service.
NextClosing == MessageEnsure \/ MessageSave \/ WindowEvent

SpecClosing == Init /\ [][NextClosing]_vars

----------------------------------------------------------------------------
\* The process stops between the save of a closing event and the migration,
\* and the event is delivered again.  The stores are then as a call leaves
\* them whose migration fails at its first statement: the resolution is
\* saved and nothing else is done.

\* process_conversation_window stopped after conversation.save()
WindowCrash ==
  /\ pending = NoPending
  /\ \E event \in WindowEvents :
       /\ event.has_chats_room
       /\ ConvsOf(World, event.project_uuid, event.contact_urn, event.channel_uuid) # {}
       /\ SetWorld(process_conversation_window(World, event, "dynamo").W)
       /\ pending' = <<"window", event>>
  /\ last' = NoCall
  /\ UNCHANGED <<queue, published, outcome>>

\* update_conversation_data(to_update={"resolution": 0}) stopped after
\* conversation.save()
UpdateCrash ==
  /\ pending = NoPending
  /\ \E t \in Tuples :
       /\ ConvsOf(World, t[1], t[2], t[3]) # {}
       /\ SetWorld(update_conversation_data(World, "resolution", RESOLVED,
                                            t[1], t[2], t[3], "dynamo").W)
       /\ pending' = <<"update", t>>
  /\ last' = NoCall
  /\ UNCHANGED <<queue, published, outcome>>

\* what the second handling of the pending event returns
redelivered(W, event) ==
  IF event[1] = "window"
  THEN process_conversation_window(W, event[2], "none")
  ELSE update_conversation_data(W, "resolution", RESOLVED,
                                event[2][1], event[2][2], event[2][3], "none")

\* The event is delivered again and handled from its first statement to its
\* last, every store working.
Redeliver ==
  /\ pending # NoPending
  /\ SetWorld(redelivered(World, pending).W)
  /\ pending' = NoPending
  /\ last' = Call("redelivered", pending, None)
  /\ UNCHANGED <<queue, published, outcome>>

NextCrash == OpenCall \/ WriteCall \/ WindowCrash \/ UpdateCrash \/ Redeliver

SpecCrash == Init /\ [][NextCrash]_vars /\ WF_vars(Redeliver)

----------------------------------------------------------------------------
\* The billing task.  pending is the request of the task in flight: its
\* arguments and request.retries; last records its latest run with the
\* number of runs the invocation has had.

\* @shared_task(max_retries=3)
max_retries == 3

\* what makes a run fail: the aggregation query or the POST to billing
BillingFaults == {"none", "database", "billing"}

\* The body of send_billing_conversations up to its return or its except
\* clause: "success" when it returned, "error" when an exception reached
\* the except clause.
billing_attempt(table, project_uuid, target_date, fault) ==
  IF fault = "database" THEN "error"
  ELSE IF get_all_channels_counts(table, project_uuid, target_date) = <<>>
       THEN "success"
       ELSE IF fault = "billing" THEN "error" ELSE "success"

\* self.retry(exc=exc) of a request with request.retries = retries: the
\* task is sent again unless retries + 1 exceeds max_retries, and then exc
\* is raised.
retry(retries) ==
  IF retries + 1 > max_retries THEN "failure" ELSE "retry"

\* send_billing_conversations.delay(project_uuid, target_date)
BillingDelay ==
  /\ pending = NoPending
  /\ \E project_uuid \in BilledProjects, target_date \in Dates :
       pending' = <<project_uuid, target_date, 0>>
  /\ last' = Call("delay", <<>>, [runs |-> 0, status |-> "sent"])
  /\ UNCHANGED <<projects, convs, archive, classifications, hot, jobs, datalake, processed,
                 queue, published, written, outcome>>

\* what a run of the request ends with
billing_status(attempt, retries) ==
  IF attempt = "success" THEN "success" ELSE retry(retries)

\* A worker runs the task in flight.
BillingRun ==
  /\ pending # NoPending
  /\ \E fault \in BillingFaults :
       LET status == billing_status(billing_attempt(convs, pending[1], pending[2], fault),
                                    pending[3])
       IN /\ pending' = IF status = "retry"
                        THEN <<pending[1], pending[2], pending[3] + 1>>
                        ELSE NoPending
          /\ last' = Call("send_billing_conversations", <<pending[1], pending[2], fault>>,
                          [runs |-> last.ret.runs + 1, status |-> status])
  /\ UNCHANGED <<projects, convs, archive, classifications, hot, jobs, datalake, processed,
                 queue, published, written, outcome>>

NextBilling == BillingDelay \/ BillingRun

SpecBilling == InitCount /\ [][NextBilling]_vars

----------------------------------------------------------------------------
\* Classification of a conversation.

Topics == {"T1"}          \* Topic rows
SubTopics == {"S1"}       \* SubTopic rows
Missing == -1             \* a key the Lambda's answer does not carry
\* limit= of the query of the hot store
ClassifyLimit == 50

\* What json.loads of the Lambda's payload can be: confidence in hundredths;
\* no key at all is the empty dict (or null).
LambdaResult(topic_uuid, subtopic_uuid, confidence) ==
  [topic_uuid |-> topic_uuid, subtopic_uuid |-> subtopic_uuid,
   confidence |-> confidence]

LambdaResults ==
  {LambdaResult(NoValue, NoValue, Missing),
   LambdaResult("T9", "S1", Missing),
   LambdaResult("T1", "S1", 50)}

ClassifyFaults == {"none", "dynamo", "lambda"}

\* items[::-1]
RECURSIVE reversed(_)
reversed(items) ==
  IF items = <<>> THEN <<>> ELSE Append(reversed(Tail(items)), Head(items))

\* conversation.messages_data.messages, [] when there is no such row
messages_data(W, c) ==
  IF \E row \in W.archive : row.conversation = c
  THEN (CHOOSE row \in W.archive : row.conversation = c).messages
  ELSE <<>>

\* ClassificationService._get_conversation_messages: the hot store first,
\* the archive when the hot store has nothing or fails
get_conversation_messages(W, c, fault) ==
  LET items == IF fault = "dynamo" THEN <<>>
               ELSE get_messages(W, W.convs[c].project, W.convs[c].contact_urn,
                                 W.convs[c].channel_uuid, ClassifyLimit)
  IN IF items # <<>> THEN reversed(items) ELSE messages_data(W, c)

\* Topic.objects.filter(uuid=topic_uuid).first()
first_topic(topic_uuid) == IF topic_uuid \in Topics THEN topic_uuid ELSE NoValue

\* SubTopic.objects.filter(uuid=subtopic_uuid).first()
first_subtopic(subtopic_uuid) ==
  IF subtopic_uuid \in SubTopics THEN subtopic_uuid ELSE NoValue

\* defaults= of the update_or_create
defaults(result) ==
  [topic |-> first_topic(result.topic_uuid),
   subtopic |-> first_subtopic(result.subtopic_uuid),
   confidence |-> IF result.confidence = Missing THEN 0 ELSE result.confidence]

ClassificationRow(c, values_) ==
  [conversation |-> c, topic |-> values_.topic, subtopic |-> values_.subtopic,
   confidence |-> values_.confidence]

\* A plausible slip: objects.create instead of update_or_create.
classification_create(rows, c, values_) ==
  [rows |-> Append(rows, ClassificationRow(c, values_)), at |-> Len(rows) + 1]

\* ConversationClassification.objects.update_or_create(conversation=, defaults=)
classification_update_or_create(rows, c, values_) ==
  LET found == {i \in DOMAIN rows : rows[i].conversation = c}
  IN IF found = {}
     THEN [rows |-> Append(rows, ClassificationRow(c, values_)),
           at |-> Len(rows) + 1]
     ELSE LET i == CHOOSE i \in found : TRUE
          IN [rows |-> [rows EXCEPT ![i] = ClassificationRow(c, values_)],
              at |-> i]

\* ClassificationService._save_classification; ret is the position of the
\* row, or None
save_classification(W, c, result) ==
  IF result = LambdaResult(NoValue, NoValue, Missing)
  THEN Result(W, FALSE, None)
  ELSE LET saved == classification_update_or_create(W.classifications, c, defaults(result))
       IN Result([W EXCEPT !.classifications = saved.rows], FALSE, saved.at)

\* ClassificationService.classify_conversation(conversation_uuid); result is
\* what the Lambda answers, fault = "dynamo" makes the query of the hot
\* store raise, fault = "lambda" makes the invocation raise.
classify_conversation(W, conversation_uuid, result, fault) ==
  IF conversation_uuid \notin DOMAIN W.convs
  THEN Result(W, FALSE, None)
  ELSE IF get_conversation_messages(W, conversation_uuid, fault) = <<>>
       THEN Result(W, FALSE, None)
       ELSE IF fault = "lambda"
            THEN Result(W, FALSE, None)
            ELSE save_classification(W, conversation_uuid, result)

\* classify_conversation(conversation_uuid) for a conversation there is and
\* for a uuid there is no conversation of; the answer is only read when the
\* invocation returns
ClassifyCall ==
  /\ \E c \in 1 .. MaxClassified + 1, result \in LambdaResults,
        fault \in ClassifyFaults :
       /\ fault = "lambda" => result = LambdaResult(NoValue, NoValue, Missing)
       /\ LET r == classify_conversation(World, c, result, fault)
          IN /\ SetWorld(r.W)
             /\ last' = Call("classify_conversation", <<c, result, fault>>, r.ret)
  /\ UNCHANGED <<queue, published, outcome, pending>>

\* ensure_conversation_exists(...) for a contact with no conversation in
\* progress
ReopenCall ==
  /\ Len(convs) < MaxClassified
  /\ \E t \in Tuples :
       /\ conversation_queryset(World, t[1], t[2], t[3]) = {}
       /\ LET r == ensure_conversation_exists(World, t[1], t[2], t[3])
          IN /\ SetWorld(r.W)
             /\ last' = Call("ensure_conversation_exists", t, r.ret)
  /\ UNCHANGED <<queue, published, outcome, pending>>

\* the first save_received_message of a contact
FirstWrite ==
  /\ hot = {}
  /\ \E c \in DOMAIN convs :
       SaveCall("save_received_message", c,
                save_received_message(World, ConversationObject(World, c),
                                      DirectEvent(c), 1, "none"))

\* update_conversation_data(to_update={"resolution": 0}, ...), every store
\* working
CloseCall ==
  /\ Len(jobs) < MaxJobs
  /\ \E t \in Tuples :
       /\ conversation_queryset(World, t[1], t[2], t[3]) # {}
       /\ LET r == update_conversation_data(World, "resolution", RESOLVED,
                                            t[1], t[2], t[3], "none")
          IN /\ SetWorld(r.W)
             /\ last' = Call("update_conversation_data",
                             <<t, <<"resolution", RESOLVED>>>>, r.ret)
  /\ UNCHANGED <<queue, published, outcome, pending>>

NextClassify == ReopenCall \/ FirstWrite \/ CloseCall \/ ClassifyCall

SpecClassify == Init /\ [][NextClassify]_vars

----------------------------------------------------------------------------
\* Everything that writes a resolution: two consumers of message events, so
\* that duplicates appear and are healed, and the window service.

\* a plain message, a message with a CSAT key and one with an NPS key
ReopenShapes ==
  {Shape("message.received", FALSE, "u1", "C1", 1, "", ""),
   Shape("message.sent", FALSE, "u1", "C1", 1, "weni_csat", "5"),
   Shape("message.received", FALSE, "u1", "C1", 1, "weni_nps", "9")}

\* _process_message(message) for a message just received
HandleMessage ==
  /\ Cardinality(hot) < MaxHot
  /\ \E shape \in ReopenShapes :
       LET r == process_one_message(World, RawMessage(1, shape), 1, "none")
       IN /\ SetWorld(r.W)
          /\ last' = Call("_process_message", shape, r.ret.outcome)
  /\ UNCHANGED <<queue, published, outcome, pending>>

NextReopen == HandleMessage \/ WindowEvent \/ RaceLookup \/ RaceCreate

SpecReopen == Init /\ [][NextReopen]_vars

----------------------------------------------------------------------------
\* Redelivery.  An iteration whose deletes all fail: delete_message_batch
\* raises and so does every delete_message of the fallback, and SQS delivers
\* the messages again.
PollUndeleted ==
  \E k \in 1 .. MaxFaultyBatch :
    /\ CanReceive(k)
    /\ \E uids \in UuidChoices(k) :
         Iteration(k, uids, [id \in BatchIds(k) |-> "none"], NoCall,
                   TRUE, {}, BatchIds(k))

NextRedeliver == PublishTyped \/ Poll \/ PollUndeleted

\* The consumer keeps polling: the loop of start_consuming runs an iteration
\* whenever the queue has a message for it.
SpecRedeliver == Init /\ [][NextRedeliver]_vars /\ WF_vars(Poll)

\* ------------------------------------------------------------------
\* Properties
\* ------------------------------------------------------------------

ContactTuples == Projects \X Contacts \X Channels

InProgressOf(t) ==
  {i \in DOMAIN convs :
     /\ convs[i].project = t[1]
     /\ convs[i].contact_urn = t[2]
     /\ convs[i].channel_uuid = t[3]
     /\ convs[i].resolution = IN_PROGRESS}

Newest(S) == CHOOSE i \in S : \A j \in S : j <= i

SameTuple(i, j) ==
  /\ convs[i].project = convs[j].project
  /\ convs[i].contact_urn = convs[j].contact_urn
  /\ convs[i].channel_uuid = convs[j].channel_uuid

ArchiveRows(c) == {r \in archive : r.conversation = c}

ArchivedCount(c) ==
  IF ArchiveRows(c) = {} THEN 0
  ELSE Len((CHOOSE r \in ArchiveRows(c) : TRUE).messages)

InQueue(id) == \E i \in DOMAIN queue : queue[i].id = id

SaveOps == {"save_received_message", "save_sent_message"}

\* C1: with a single consumer, after every completed operation each
\* (project, contact, channel) tuple has at most one conversation whose
\* resolution is IN_PROGRESS.
C1_AtMostOneInProgress ==
  \A t \in ContactTuples : Cardinality(InProgressOf(t)) <= 1

\* a tuple whose first conversation was closed and which got a second one
C1_Witness ==
  \E i, j \in DOMAIN convs :
    /\ i < j
    /\ SameTuple(i, j)
    /\ convs[i].resolution # IN_PROGRESS
    /\ convs[j].resolution = IN_PROGRESS

\* C2: save_received_message and save_sent_message write to the hot store
\* only for a conversation in progress; for any other conversation they add
\* nothing and return without error.
C2_WritesOnlyInProgress ==
  last.op \in SaveOps =>
    /\ last.args[2] # IN_PROGRESS => last.ret = 0
    /\ last.ret > 0 => last.args[2] = IN_PROGRESS

\* a save call for a closed conversation, which added nothing
C2_Witness ==
  /\ last.op \in SaveOps
  /\ last.args[2] # IN_PROGRESS
  /\ last.ret = 0

\* C3: a raw message whose handling failed with anything but a decode
\* failure is still in the queue afterwards (it is not deleted on error).
C3_FailedMessageStaysQueued ==
  \A id \in 1 .. MaxRaw : outcome[id] = "error" => InQueue(id)

\* C4: the archive of a conversation that is no longer in progress holds
\* exactly the messages written for it while it was in progress.
C4_ArchiveHoldsWrittenMessages ==
  \A c \in DOMAIN convs :
    convs[c].resolution # IN_PROGRESS => ArchivedCount(c) = written[c]

\* C5: once a conversation with at least one message has left IN_PROGRESS,
\* exactly one archive row exists for it.
C5_ClosedConversationArchived ==
  \A c \in DOMAIN convs :
    (convs[c].resolution # IN_PROGRESS /\ written[c] >= 1)
      => Cardinality(ArchiveRows(c)) = 1

\* C6: after a migration that archived messages, the hot-store partition of
\* the conversation's tuple is empty.
C6_MigrationEmptiesPartition ==
  (last.op = "migrate_conversation_messages_to_postgres" /\ last.ret > 0)
    => LET c == convs[last.args[1]]
       IN Partition(World, ConversationKey(c.project, c.contact_urn,
                                           c.channel_uuid)) = {}

\* C7: a raw message handled twice (redelivered, or handled again after a
\* restart) leaves one hot-store item, not two.
C7_OneItemPerMessage ==
  \A id \in 1 .. MaxRaw :
    Cardinality({it \in hot : it.message_text = id}) <= 1

\* C8: a second ensure_conversation_exists call with the same arguments,
\* made right after the first, returns the same conversation and changes no
\* conversation or project row.
C8_EnsureIdempotent ==
  [][(/\ last.op = "ensure_conversation_exists"
      /\ last'.op = "ensure_conversation_exists"
      /\ last'.args = last.args
      /\ last'.rep = 2)
       => /\ last'.ret = last.ret
          /\ convs' = convs
          /\ projects' = projects]_vars

\* a repeated call that returned a conversation
C8_Witness ==
  /\ last.op = "ensure_conversation_exists"
  /\ last.rep = 2
  /\ last.ret # None

\* C9: when a message arrives for a tuple with several conversations in
\* progress, the most recently created one stays IN_PROGRESS and receives
\* the message, and every other one becomes UNCLASSIFIED.
C9_HealKeepsNewest ==
  [][\A t \in ContactTuples :
       LET A == InProgressOf(t)
           k == ConversationKey(t[1], t[2], t[3])
       IN (/\ Cardinality(A) > 1
           /\ Cardinality({it \in hot' : it.conversation_key = k})
                > Cardinality({it \in hot : it.conversation_key = k}))
            => /\ convs'[Newest(A)].resolution = IN_PROGRESS
               /\ written'[Newest(A)] > written[Newest(A)]
               /\ \A i \in A \ {Newest(A)} :
                    /\ convs'[i].resolution = UNCLASSIFIED
                    /\ written'[i] = written[i]]_vars

\* an older conversation demoted, the newer one in progress with the message
\* of its creation and the message that healed
C9_Witness ==
  \E i, j \in DOMAIN convs :
    /\ i < j
    /\ SameTuple(i, j)
    /\ convs[i].resolution = UNCLASSIFIED
    /\ convs[j].resolution = IN_PROGRESS
    /\ written[j] >= 2

\* C10: a second migration of the same conversation, right after the first
\* and with no new hot-store items, leaves the durable store and the hot
\* store as the first left them: one archive row, the same messages.
C10_SecondMigrationChangesNothing ==
  [][(/\ last.op = "migrate_conversation_messages_to_postgres"
      /\ last'.op = "migrate_conversation_messages_to_postgres"
      /\ last'.args = last.args
      /\ last'.rep = 2)
       => /\ archive' = archive
          /\ hot' = hot
          /\ convs' = convs
          /\ projects' = projects
          /\ Cardinality(ArchiveRows(last.args[1])') <= 1]_vars

\* a repeated migration that found messages to archive
C10_Witness ==
  /\ last.op = "migrate_conversation_messages_to_postgres"
  /\ last.rep = 2
  /\ last.ret > 0

\* the conversations of the tuple of a window event, and its hot-store items
TargetsOf(event) ==
  {i \in DOMAIN convs :
     /\ convs[i].project = event.project_uuid
     /\ convs[i].contact_urn = event.contact_urn
     /\ convs[i].channel_uuid = event.channel_uuid}

ItemsOf(event) ==
  {it \in hot : it.conversation_key =
     <<event.project_uuid, event.contact_urn, event.channel_uuid>>}

\* the step archived the items of the event's tuple for the conversation c
Archived(c, event) ==
  /\ hot' = hot
  /\ IF ItemsOf(event) = {} THEN archive' = archive
     ELSE \E r \in archive' :
            /\ r.conversation = c
            /\ Len(r.messages) = Cardinality(ItemsOf(event))
            /\ {x \in archive' : x.conversation # c}
                 = {x \in archive : x.conversation # c}

\* the step is the handling of event (the queue and the consumer take no part)
WindowStep(event) ==
  /\ queue' = queue
  /\ outcome' = outcome
  /\ DeliverWindow(event, "none")

\* C11: a conversation.window event runs the migration and enqueues one
\* classification job exactly when its conversation was IN_PROGRESS before
\* the event and is not afterwards; otherwise it does neither.
C11_WindowMigratesIffCloses ==
  [][\A event \in WindowEvents :
       (event.channel_uuid # NoChannel /\ WindowStep(event))
         => LET S == TargetsOf(event)
            IN IF /\ S # {}
                  /\ convs[Newest(S)].resolution = IN_PROGRESS
                  /\ convs'[Newest(S)].resolution # IN_PROGRESS
               THEN /\ jobs' = Append(jobs, Newest(S))
                    /\ Archived(Newest(S), event)
               ELSE /\ jobs' = jobs
                    /\ archive' = archive
                    /\ hot' = hot]_vars

\* a window closed a conversation that had a message: job and archive row
C11_Witness ==
  \E i \in DOMAIN jobs :
    /\ convs[jobs[i]].resolution = HAS_CHAT_ROOM
    /\ ArchiveRows(jobs[i]) # {}

\* C12: after a conversation.window event with a channel, the conversation
\* of its tuple has resolution HAS_CHAT_ROOM when has_chats_room is true;
\* otherwise it has the resolution it had before, or IN_PROGRESS when the
\* event created it.
C12_WindowResolution ==
  [][\A event \in WindowEvents :
       (event.channel_uuid # NoChannel /\ WindowStep(event))
         => LET S == TargetsOf(event)
            IN IF S = {}
               THEN /\ Len(convs') = Len(convs) + 1
                    /\ convs'[Len(convs')].contact_urn = event.contact_urn
                    /\ convs'[Len(convs')].channel_uuid = event.channel_uuid
                    /\ convs'[Len(convs')].resolution =
                         IF event.has_chats_room THEN HAS_CHAT_ROOM
                         ELSE IN_PROGRESS
               ELSE /\ Len(convs') = Len(convs)
                    /\ convs'[Newest(S)].resolution =
                         IF event.has_chats_room THEN HAS_CHAT_ROOM
                         ELSE convs[Newest(S)].resolution]_vars

\* a closed conversation that a later window without a chats room left closed
C12_Witness ==
  \E c \in DOMAIN convs :
    /\ convs[c].resolution = HAS_CHAT_ROOM
    /\ ~convs[c].has_chats_room

Msg(id) == queue[CHOOSE i \in DOMAIN queue : queue[i].id = id]

\* the raw messages a step handled for the first time
FirstHandled == {id \in 1 .. MaxRaw : outcome[id] = "none" /\ outcome'[id] # "none"}

ChannelMissing(id) ==
  /\ Msg(id).json
  /\ Msg(id).event_type \in MessageTypes
  /\ Msg(id).channel_uuid = NoChannel

\* C14: a message.received, message.sent or conversation.window event with
\* no channel_uuid creates no project and no conversation, writes no
\* hot-store item and raises nothing, and its raw message is deleted from
\* the queue.
C14_MissingChannelChangesNothing ==
  [][/\ \A id \in FirstHandled :
          ChannelMissing(id)
            => /\ outcome'[id] = "skipped"
               /\ \A i \in DOMAIN queue' : queue'[i].id # id
     /\ (FirstHandled # {} /\ \A id \in FirstHandled : ChannelMissing(id))
          => /\ projects' = projects
             /\ convs' = convs
             /\ hot' = hot
     /\ \A event \in WindowEvents :
          (event.channel_uuid = NoChannel /\ WindowStep(event))
            => /\ projects' = projects
               /\ convs' = convs
               /\ hot' = hot]_vars

\* a message without a channel was handled and deleted; the stores are empty
C14_Witness ==
  /\ \E id \in 1 .. MaxRaw : outcome[id] = "skipped" /\ ~InQueue(id)
  /\ projects = {}
  /\ convs = <<>>
  /\ hot = {}

\* _process_message called for the messages of batch one at a time, each
\* call starting from the world the call before it left
RECURSIVE OneByOne(_, _, _, _)
OneByOne(W, out, batch, uids) ==
  IF batch = <<>> THEN [W |-> W, outcome |-> out]
  ELSE OneByOne(
         process_one_message(W, Head(batch), uids[Head(batch).id], "none").W,
         [out EXCEPT ![Head(batch).id] =
            process_one_message(W, Head(batch), uids[Head(batch).id],
                                "none").ret.outcome],
         Tail(batch), uids)

Stores == <<projects, convs, archive, classifications, hot, jobs, datalake, processed, written>>

\* C16: a raw message whose body is not valid JSON is deleted from the
\* queue without any handler being called: no project, conversation,
\* hot-store item or other stored state changes.
C16_PoisonPillDeleted ==
  [][/\ \A id \in FirstHandled :
          ~Msg(id).json
            => /\ outcome'[id] = "poison"
               /\ \A i \in DOMAIN queue' : queue'[i].id # id
     /\ (FirstHandled # {} /\ \A id \in FirstHandled : ~Msg(id).json)
          => Stores' = Stores]_vars

\* a body that is not JSON was received and deleted; nothing was stored
C16_Witness ==
  /\ \E id \in 1 .. MaxRaw : outcome[id] = "poison" /\ ~InQueue(id)
  /\ projects = {}
  /\ convs = <<>>
  /\ hot = {}
  /\ processed = {}

\* the event types that have a handler in the contract
ContractTypes == MessageTypes \cup {"conversation.window"}

\* what the handlers write: everything stored but the consumer's own memory
Written == <<projects, convs, archive, classifications, hot, jobs, datalake, written>>

\* C17: a decoded message whose event_type is none of message.received,
\* message.sent and conversation.window is skipped: no handler is called,
\* nothing stored changes, and the message is deleted from the queue.
C17_UnknownTypeSkipped ==
  [][/\ \A id \in FirstHandled :
          (Msg(id).json /\ Msg(id).event_type \notin ContractTypes)
            => /\ outcome'[id] = "unknown"
               /\ \A i \in DOMAIN queue' : queue'[i].id # id
     /\ (/\ FirstHandled # {}
         /\ \A id \in FirstHandled :
              Msg(id).json /\ Msg(id).event_type \notin ContractTypes)
          => Written' = Written]_vars

\* an iteration received one message of an unknown type and deleted it;
\* nothing was stored
C17_Witness ==
  /\ last.op = "start_consuming"
  /\ last.args = <<"unknown.event.type">>
  /\ outcome[1] = "unknown"
  /\ queue = <<>>
  /\ projects = {}
  /\ convs = <<>>
  /\ hot = {}

\* the conversation.window event a raw message carries
WindowEventOf(message) ==
  [project_uuid |-> message.project_uuid, contact_urn |-> message.contact_urn,
   channel_uuid |-> message.channel_uuid, has_chats_room |-> FALSE]

\* the world W with the consumer's memory of the current state
Kept(W) == [W EXCEPT !.processed = processed]

\* C18: every decoded event goes to the one handler of its event_type:
\* message.received to the message-received handler, message.sent to the
\* message-sent handler and conversation.window to the window handler, which
\* calls process_conversation_window with the event.  Stated for an
\* iteration that received one message: it leaves what that handler leaves.
C18_EveryTypeRouted ==
  [][\A id \in FirstHandled :
       (FirstHandled = {id} /\ Len(last'.args) = 1 /\ Msg(id).json)
         => /\ Msg(id).event_type = "message.received"
                 => \E uid \in UuidRanks :
                      Kept(World') =
                        Kept(process_message_received(World, Msg(id), uid, "none").W)
            /\ Msg(id).event_type = "message.sent"
                 => \E uid \in UuidRanks :
                      Kept(World') =
                        Kept(process_message_sent(World, Msg(id), uid, "none").W)
            /\ Msg(id).event_type = "conversation.window"
                 => Kept(World') =
                      Kept(process_conversation_window(
                             World, WindowEventOf(Msg(id)), "none").W)]_vars

\* the Conversation field and the agent setting of a special-event key
FieldOf(key) == IF key = "weni_csat" THEN "csat" ELSE "nps"

AgentOf(key) == IF key = "weni_csat" THEN "AGENT_UUID_CSAT" ELSE "AGENT_UUID_NPS"

\* the csat and nps of the conversations
Scores(cs) == [c \in DOMAIN cs |-> <<cs[c].csat, cs[c].nps>>]

\* the active conversation of message m after the step has csat (nps) equal
\* to value, and the step enqueued the one data-lake event of m
ScoreRecorded(m, value) ==
  \E c \in DOMAIN convs' :
    /\ convs'[c].resolution = IN_PROGRESS
    /\ convs'[c].contact_urn = m.contact_urn
    /\ convs'[c].channel_uuid = m.channel_uuid
    /\ str(convs'[c][FieldOf(m.key)]) = str(value)
    /\ datalake' = Append(datalake,
                          DataLakeEvent(m.project_uuid, m.contact_urn, m.key,
                                        str(value), AgentOf(m.key), c))

\* C19: a message event with key weni_csat (weni_nps) and a non-empty value
\* sets the csat (nps) of its active conversation to the value and enqueues
\* exactly one data-lake event with event_name weni_nexus_data, the key, the
\* value as a string and the conversation id and agent id as metadata; with
\* a missing or empty value the csat and nps of every conversation stay as
\* they are and nothing is enqueued.
C19_ScoreRecordedOnce ==
  [][\A id \in FirstHandled :
       (FirstHandled = {id} /\ Len(last'.args) = 1 /\ Msg(id).key # "")
         => IF Msg(id).value \notin {NoValue, ""}
            THEN ScoreRecorded(Msg(id), Msg(id).value)
            ELSE /\ datalake' = datalake
                 /\ Scores(SubSeq(convs', 1, Len(convs))) = Scores(convs)
                 /\ \A c \in DOMAIN convs' \ DOMAIN convs :
                      Scores(convs')[c] = <<NoValue, NoValue>>]_vars

\* the fields of dto the contract calls invalid: a string field that is
\* None or has no character other than whitespace, a null value, an
\* event_name other than weni_nexus_data
Blank(field_value) ==
  field_value.none \/ \A i \in DOMAIN field_value.chars : field_value.chars[i] = " "

Invalid(dto) ==
  {name \in {StringFields[i] : i \in DOMAIN StringFields} : Blank(dto[name])}
    \cup (IF dto.value.none THEN {"value"} ELSE {})
    \cup (IF dto.event_name = "weni_nexus_data" THEN {} ELSE {"event_name"})

\* the error that names the field
ErrorOf(name) ==
  IF name = "value" THEN "value cannot be None"
  ELSE IF name = "event_name" THEN "event_name must be \"weni_nexus_data\""
  ELSE name \o " cannot be empty"

\* C20: validate accepts an event exactly when project, contact_urn, key,
\* date and value_type are non-empty after trimming, value is not null and
\* event_name is weni_nexus_data; otherwise it raises one error that names
\* every invalid field, each once.
C20_ValidateNamesEveryInvalidField ==
  last.op = "validate"
    => LET dto == last.args[1]
           errors == last.ret.errors
       IN /\ last.ret.raised <=> Invalid(dto) # {}
          /\ {errors[i] : i \in DOMAIN errors} = {ErrorOf(name) : name \in Invalid(dto)}
          /\ Len(errors) = Cardinality(Invalid(dto))

\* an event with a whitespace-only project and a null value was rejected
\* with an error naming both
C20_Witness ==
  /\ last.op = "validate"
  /\ last.args[1].project = Text(<<" ">>)
  /\ last.args[1].value = Null
  /\ last.ret.raised
  /\ last.ret.errors = <<"project cannot be empty", "value cannot be None">>

\* a string of an enqueued event as a field of DataLakeEventDTO: "" and " "
\* as they are, any other string as a string of other characters
AsField(s) ==
  IF s = "" THEN Text(<<>>)
  ELSE IF s = " " THEN Text(<<" ">>)
  ELSE Text(<<"a">>)

\* the DataLakeEventDTO of an enqueued event; its date is the current time
AsDTO(event) ==
  [event_name |-> event.event_name, date |-> Text(<<"a">>),
   project |-> AsField(event.project), contact_urn |-> AsField(event.contact_urn),
   key |-> AsField(event.key), value_type |-> AsField(event.value_type),
   value |-> AsField(event.value)]

\* C21: CSAT/NPS processing never enqueues a data-lake event that fails
\* validation: every enqueued event passes DataLakeEventDTO.validate.
C21_EnqueuedEventsAreValid ==
  \A i \in DOMAIN datalake : ~validate(AsDTO(datalake[i])).raised

\* the tuple t as the fields of an event
TupleEvent(t) == [project_uuid |-> t[1], contact_urn |-> t[2], channel_uuid |-> t[3]]

\* the step is an update_conversation_data call of the tuple t with fault
UpdateStep(t, fault) ==
  /\ last'.op = "update_conversation_data"
  /\ last'.args[1] = t
  /\ last'.args[3] = fault
  /\ TargetsOf(TupleEvent(t)) # {}

\* the conversation the update of the tuple t works on went from IN_PROGRESS
\* to another resolution
Closes(t) ==
  /\ convs[Newest(TargetsOf(TupleEvent(t)))].resolution = IN_PROGRESS
  /\ convs'[Newest(TargetsOf(TupleEvent(t)))].resolution # IN_PROGRESS

\* C22: when update_conversation_data changes the resolution of a
\* conversation from IN_PROGRESS to another value, the migration runs and a
\* classification job is enqueued; when the resolution stays IN_PROGRESS or
\* the conversation was not IN_PROGRESS, neither happens.
C22_UpdateMigratesIffCloses ==
  [][\A t \in Tuples :
       UpdateStep(t, "none")
         => IF Closes(t)
            THEN /\ jobs' = Append(jobs, Newest(TargetsOf(TupleEvent(t))))
                 /\ Archived(Newest(TargetsOf(TupleEvent(t))), TupleEvent(t))
            ELSE /\ jobs' = jobs
                 /\ archive' = archive]_vars

\* an update closed a conversation that had a message: job and archive row
C22_Witness ==
  /\ last.op = "update_conversation_data"
  /\ last.args[2] = <<"resolution", RESOLVED>>
  /\ last.args[3] = "none"
  /\ \E i \in DOMAIN jobs :
       /\ convs[jobs[i]].resolution = RESOLVED
       /\ ArchiveRows(jobs[i]) # {}

----------------------------------------------------------------------------
\* The conversations of the table that a count for (project, date) bills to
\* a channel
Billed(project_uuid, target_date, channel_uuid) ==
  {c \in DOMAIN convs :
     /\ convs[c].project = project_uuid
     /\ convs[c].channel_uuid = channel_uuid
     /\ date(convs[c].created_at) = target_date}

\* The counts the element of a channel must carry
CountsOf(S) ==
  [resolved |-> Cardinality({c \in S : convs[c].resolution = RESOLVED}),
   unresolved |-> Cardinality({c \in S : convs[c].resolution = UNRESOLVED}),
   has_chats_rooms |->
     Cardinality({c \in S : convs[c].resolution = HAS_CHAT_ROOM \/ convs[c].has_chats_room}),
   unclassified |-> Cardinality({c \in S : convs[c].resolution = UNCLASSIFIED})]

\* C23: the billing count of a project and a date has exactly one element per
\* channel that has a conversation of the project created on that date, and
\* none for any other channel; the element counts the channel's conversations
\* of that project and date with resolution 0 (resolved), 1 (unresolved),
\* 3 (unclassified), and with resolution 4 or a chat room (has_chats_rooms).
\* Conversations of other projects, of other dates and with no channel are
\* not counted.
C23_OneCountPerChannel ==
  last.op = "get_all_channels_counts"
    => /\ \A ch \in BilledChannels :
            Cardinality({i \in DOMAIN last.ret : last.ret[i].channel_uuid = ch})
              = IF Billed(last.args[1], last.args[2], ch) = {} THEN 0 ELSE 1
       /\ \A i \in DOMAIN last.ret :
            /\ last.ret[i].channel_uuid \in BilledChannels
            /\ LET counts == CountsOf(Billed(last.args[1], last.args[2],
                                             last.ret[i].channel_uuid))
               IN /\ last.ret[i].resolved = counts.resolved
                  /\ last.ret[i].unresolved = counts.unresolved
                  /\ last.ret[i].has_chats_rooms = counts.has_chats_rooms
                  /\ last.ret[i].unclassified = counts.unclassified

\* a resolved conversation with a chat room was counted twice over, next to
\* a conversation that was not counted at all
C23_Witness ==
  /\ last.op = "get_all_channels_counts"
  /\ Len(convs) = 2
  /\ Len(last.ret) = 1
  /\ last.ret[1].resolved = 1
  /\ last.ret[1].has_chats_rooms = 1

----------------------------------------------------------------------------
\* C24: every item written to the hot store carries an expiry (ExpiresOn, in
\* seconds) strictly later than the instant of its write: the whole second
\* of the clock reading plus ttl_hours * 3600, with ttl_hours = 48 at both
\* callers.
C24_ExpiryAfterWrite ==
  (last.op = "storage_message" /\ last.ret.items > 0)
    => /\ last.ret.ExpiresOn * TicksPerSecond > last.args[4]
       /\ last.ret.ExpiresOn = int_time(last.args[3]) + 48 * 3600

\* an item was written some ticks after a clock reading that fell within a
\* second
C24_Witness ==
  /\ last.op = "storage_message"
  /\ last.ret.items = 1
  /\ last.args[3] % TicksPerSecond = 1
  /\ last.args[4] > last.args[3]

----------------------------------------------------------------------------
\* The hot-store items of the partition of the conversation c
PartitionOf(c) ==
  {it \in hot : it.conversation_key =
     ConversationKey(convs[c].project, convs[c].contact_urn, convs[c].channel_uuid)}

\* A migration of c during which the failing call was made: the query of
\* the hot store, or the upsert, which is reached when the query returned
\* messages.
FailedMigration(c, fault) ==
  /\ last'.op = "migrate_conversation_messages_to_postgres"
  /\ Len(last'.args) = 2
  /\ last'.args[1] = c
  /\ last'.args[2] = fault
  /\ (fault = "postgres" => PartitionOf(c) # {})

\* C25: when the query of the hot store or the upsert of the
\* ConversationMessages row fails during a migration, the migration stops
\* (no archive row is written or changed), the error is raised to the
\* caller, and no hot-store item is deleted.
C25_FailedMigrationRaises ==
  [][\A c \in DOMAIN convs, fault \in MigrationFaults :
       FailedMigration(c, fault)
         => /\ last'.ret = -1
            /\ archive' = archive
            /\ hot' = hot]_vars

\* the upsert of a conversation with a message failed and the message is
\* still in the hot store, in no archive row
C25_Witness ==
  /\ last.op = "migrate_conversation_messages_to_postgres"
  /\ Len(last.args) = 2
  /\ last.args[2] = "postgres"
  /\ last.ret = -1
  /\ PartitionOf(last.args[1]) # {}
  /\ ArchiveRows(last.args[1]) = {}

----------------------------------------------------------------------------
\* The migration of a conversation of the event's tuple raises under fault:
\* the query of the hot store fails, or the upsert does, which is reached
\* when the partition has items.
MigrationRaises(event, fault) ==
  \/ fault = "dynamo"
  \/ fault = "postgres" /\ ItemsOf(event) # {}

\* the most recent conversation of the event's tuple is in progress
Open(event) ==
  /\ TargetsOf(event) # {}
  /\ convs[Newest(TargetsOf(event))].resolution = IN_PROGRESS

\* the step is an update of the tuple t to RESOLVED under fault
ClosingUpdate(t, fault) ==
  /\ last'.op = "update_conversation_data"
  /\ last'.args = <<t, <<"resolution", RESOLVED>>, fault>>
  /\ Open(TupleEvent(t))

\* the step is the handling of a window event with a chat room under fault
ClosingWindow(event, fault) ==
  /\ last'.op = "process_conversation_window"
  /\ last'.args = <<event, fault>>
  /\ event.has_chats_room
  /\ Open(event)

\* the call returned, the conversation keeps the resolution to, and the step
\* enqueued no classification and archived nothing
ClosedWithoutJob(event, to) ==
  /\ ~last'.ret.raised
  /\ convs'[Newest(TargetsOf(event))].resolution = to
  /\ jobs' = jobs
  /\ archive' = archive

\* C26: when the migration raises while update_conversation_data or the
\* window service closes a conversation, the exception does not reach the
\* caller, the resolution already saved (not IN_PROGRESS) is kept, and no
\* classification job is enqueued for that close.
C26_FailedMigrationKeepsClose ==
  [][\A fault \in MigrationFaults :
       /\ \A t \in Tuples :
            (ClosingUpdate(t, fault) /\ MigrationRaises(TupleEvent(t), fault))
              => ClosedWithoutJob(TupleEvent(t), RESOLVED)
       /\ \A event \in WindowEvents :
            (ClosingWindow(event, fault) /\ MigrationRaises(event, fault))
              => ClosedWithoutJob(event, HAS_CHAT_ROOM)]_vars

\* a conversation with a message in the hot store was closed by a window
\* event while the upsert failed: it is closed, unarchived and unclassified
C26_Witness ==
  /\ last.op = "process_conversation_window"
  /\ last.args[2] = "postgres"
  /\ ~last.ret.raised
  /\ \E c \in DOMAIN convs :
       /\ convs[c].resolution = HAS_CHAT_ROOM
       /\ PartitionOf(c) # {}
       /\ ArchiveRows(c) = {}
  /\ jobs = <<>>

----------------------------------------------------------------------------
\* The CSAT/NPS processing of the message event m raises: its conversation
\* has a channel and its score is one the column cannot take.
SpecialRaises(m) ==
  /\ m.json
  /\ m.event_type \in MessageTypes
  /\ m.channel_uuid # NoChannel
  /\ m.key \in {"weni_csat", "weni_nps"}
  /\ truthy(m.value)
  /\ ~can_save(FieldOf(m.key), m.value)

\* C27: when the CSAT/NPS processing raises while a message event is
\* handled, the error is only logged: the hot-store item of the message is
\* written and kept, process_message_received / process_message_sent returns
\* normally, and the raw message is deleted from the queue.
C27_SpecialEventErrorSwallowed ==
  [][\A id \in FirstHandled :
       SpecialRaises(Msg(id))
         => /\ outcome'[id] = "processed"
            /\ \A i \in DOMAIN queue' : queue'[i].id # id
            /\ \A it \in hot : it.message_text # id
            /\ \E it \in hot' : it.message_text = id]_vars

\* an NPS event with the score "abc" was handled: its message is stored and
\* deleted from the queue, and no score and no data-lake event was recorded
C27_Witness ==
  /\ last.op = "start_consuming"
  /\ \E i \in DOMAIN last.args :
       /\ last.args[i][2] = "weni_nps"
       /\ last.args[i][3] = "abc"
       /\ outcome[last.args[i][1]] = "processed"
       /\ ~InQueue(last.args[i][1])
       /\ \E it \in hot : it.message_text = last.args[i][1]
  /\ datalake = <<>>

----------------------------------------------------------------------------
\* C28: after a batch every successfully processed message is submitted in
\* a batch delete, and when the batch delete fails, wholly or for some of
\* its entries only, each message it did not delete is deleted by a
\* delete_message call of its own: with every delete_message succeeding, no
\* message processed in an iteration is in the queue after it.
C28_ProcessedMessagesDeleted ==
  [][\A id \in FirstHandled :
       outcome'[id] = "processed"
         => \A i \in DOMAIN queue' : queue'[i].id # id]_vars

----------------------------------------------------------------------------
\* C29: when two consumers run ensure_conversation_exists for the same tuple
\* at once and the tuple has no conversation in progress, the look-up and
\* the creation are one atomic step: at most one conversation is created,
\* and no two conversations of the tuple are ever IN_PROGRESS together.
C29_EnsureIsAtomic ==
  \A i, j \in DOMAIN convs :
    (SameTuple(i, j) /\ convs[i].resolution = IN_PROGRESS
                     /\ convs[j].resolution = IN_PROGRESS)
      => i = j

----------------------------------------------------------------------------
\* the step is the put_item of the consumer that loaded the conversation c
WritesFor(c) ==
  /\ pending # NoPending
  /\ pending' = NoPending
  /\ pending[1].uuid = c
  /\ hot' # hot

\* C30: when a message event and a closing event of one conversation are
\* handled at once by two processes, no hot-store item is written for the
\* conversation after its migration has read the partition (the conversation
\* is still IN_PROGRESS when the item is put), so that every message written
\* for it is in its archive.
C30_NoWriteAfterMigration ==
  [][\A c \in DOMAIN convs :
       WritesFor(c)
         => /\ convs[c].resolution = IN_PROGRESS
            /\ written'[c] = written[c] + 1]_vars

----------------------------------------------------------------------------
\* the conversation the pending event closed: the most recent of its tuple
Pending ==
  Newest(TargetsOf(IF pending[1] = "window" THEN pending[2]
                   ELSE TupleEvent(pending[2])))

\* the process stopped while closing c, which has messages in the hot store
StoppedClosing(c) ==
  /\ pending # NoPending
  /\ c \in DOMAIN convs
  /\ Pending = c
  /\ convs[c].resolution # IN_PROGRESS
  /\ PartitionOf(c) # {}
  /\ ArchiveRows(c) = {}

\* the close of c is complete: its messages archived, its job enqueued
CloseCompleted(c) ==
  /\ ArchiveRows(c) # {}
  /\ \E i \in DOMAIN jobs : jobs[i] = c

\* C31: when the process stops after a closing event saved the resolution
\* and before the migration ran, the redelivery and full handling of the
\* same event eventually archives the messages of the conversation and
\* enqueues its classification.
C31_RedeliveryCompletesClose ==
  \A c \in 1 .. MaxConvs : StoppedClosing(c) ~> CloseCompleted(c)

----------------------------------------------------------------------------
\* C32: one invocation of send_billing_conversations whose aggregation or
\* POST keeps failing is run at most 3 times in all and then gives up with
\* an error; after a run that succeeded the task is not run again.
C32_AtMostThreeRuns ==
  last.op = "send_billing_conversations"
    => /\ last.ret.runs <= 3
       /\ last.ret.status \in {"success", "failure"} <=> pending = NoPending
       /\ last.ret.status = "failure" => last.ret.runs = 3

\* the Classification rows of conversation c
RowsOf(rows, c) == {i \in DOMAIN rows : rows[i].conversation = c}

\* the run just made found the conversation, some message, and an answer
Classified(call) ==
  /\ call.args[1] \in DOMAIN convs
  /\ get_conversation_messages(World, call.args[1], call.args[3]) # <<>>
  /\ call.args[3] # "lambda"
  /\ call.args[2] # LambdaResult(NoValue, NoValue, Missing)

\* C33: a run of classify_conversation leaves at most one Classification row
\* per conversation; a run that finds the conversation and a message and
\* gets an answer leaves the row of that conversation holding this answer and
\* changes no other row; a run for an unknown conversation, a run that finds
\* no message in the hot store and the archive, and a run whose invocation
\* fails change no row.
C33_OneLatestClassification ==
  [][last'.op = "classify_conversation"
       => LET c == last'.args[1]
          IN /\ \A d \in DOMAIN convs :
                  Cardinality(RowsOf(classifications', d)) <= 1
             /\ IF Classified(last')
                THEN /\ \E i \in RowsOf(classifications', c) :
                          classifications'[i] =
                            ClassificationRow(c, defaults(last'.args[2]))
                     /\ \A i \in DOMAIN classifications :
                          classifications[i].conversation # c
                            => classifications'[i] = classifications[i]
                ELSE classifications' = classifications]_vars

\* a conversation classified again after a later one was classified
C33_Witness ==
  /\ last.op = "classify_conversation"
  /\ Len(classifications) = 2
  /\ last.ret = 1
  /\ last.args[1] = classifications[1].conversation
  /\ classifications[1] = ClassificationRow(last.args[1], defaults(last.args[2]))

\* C34: a conversation whose resolution is not IN_PROGRESS is never set back
\* to IN_PROGRESS, whatever a message event, a window event, a CSAT/NPS
\* update or the healing of duplicates does.
C34_ClosedStaysClosed ==
  [][\A c \in DOMAIN convs :
       convs[c].resolution # IN_PROGRESS
         => convs'[c].resolution # IN_PROGRESS]_vars

\* a duplicate was healed, a conversation was closed by a window event, and
\* the contact has a conversation in progress after them
C34_Witness ==
  \E c, d, e \in DOMAIN convs :
    /\ convs[c].resolution = UNCLASSIFIED
    /\ convs[d].resolution = HAS_CHAT_ROOM
    /\ convs[e].resolution = IN_PROGRESS
    /\ c < e
    /\ d < e

\* C35: the archive of a conversation holds only messages stored for that
\* conversation: never more messages than were written for it while it was
\* in progress, so none of an earlier conversation of the same contact.
C35_ArchiveOfOwnMessagesOnly ==
  \A c \in DOMAIN convs : ArchivedCount(c) <= written[c]

\* the csat and nps of conversation c among the rows cs
Score(cs, c) ==
  IF c \in DOMAIN cs THEN <<cs[c].csat, cs[c].nps>> ELSE <<NoValue, NoValue>>

\* the conversation ensure_conversation_exists returned to the handler of
\* the message just handled: the one in progress of its contact, or None
Ensured(cs, shape) ==
  LET S == {i \in DOMAIN cs :
              /\ cs[i].project = shape.project_uuid
              /\ cs[i].contact_urn = shape.contact_urn
              /\ cs[i].channel_uuid = shape.channel_uuid
              /\ cs[i].resolution = IN_PROGRESS}
  IN IF S = {} THEN None ELSE MostRecent(S)

\* C36: when a message event with a CSAT or NPS key is handled, the only
\* conversation whose csat or nps is written is the one
\* ensure_conversation_exists returned for the event, also when the contact
\* has several conversations.
C36_ScoreWrittenToEnsured ==
  [][(last'.op = "_process_message" /\ last'.args.key # "")
       => \A c \in DOMAIN convs' :
            Score(convs', c) # Score(convs, c)
              => c = Ensured(convs', last'.args)]_vars

\* C37: with one consumer and working stores, ensure_conversation_exists
\* called with a channel_uuid does not raise and does not return None: it
\* returns a conversation that exists, is of exactly the requested project,
\* contact and channel, and is IN_PROGRESS.
C37_EnsureReturnsActive ==
  /\ \A t \in Tuples :
       t[3] # NoChannel => ~ensure_conversation_exists(World, t[1], t[2], t[3]).raised
  /\ (last.op = "ensure_conversation_exists" /\ last.args[3] # NoChannel)
       => /\ last.ret \in DOMAIN convs
          /\ convs[last.ret].project = last.args[1]
          /\ convs[last.ret].contact_urn = last.args[2]
          /\ convs[last.ret].channel_uuid = last.args[3]
          /\ convs[last.ret].resolution = IN_PROGRESS

\* a call for a contact whose earlier conversation is closed
C37_Witness ==
  /\ last.op = "ensure_conversation_exists"
  /\ last.args[3] # NoChannel
  /\ last.ret \in DOMAIN convs
  /\ \E i \in 1 .. last.ret - 1 :
       /\ SameTuple(i, last.ret)
       /\ convs[i].resolution \notin {IN_PROGRESS, UNCLASSIFIED}

\* the last handling of raw message id ended without an exception
Finished(id) ==
  outcome[id] \in {"processed", "skipped", "unknown", "duplicate", "poison"}

\* C38: a message the consumer received and handled without an error is
\* eventually deleted from the queue, a duplicate skipped by its
\* correlation_id included.
C38_HandledMessageDeleted ==
  \A id \in 1 .. MaxRaw : Finished(id) ~> ~InQueue(id)

\* C39: a message is skipped as a duplicate only if the consumer has
\* processed a message with the same correlation_id before; a message
\* without correlation_id is no duplicate of another message without one.
C39_DuplicateHasSameCorrelationId ==
  [][\A i \in DOMAIN queue :
       LET m == queue[i]
       IN (outcome'[m.id] = "duplicate" /\ outcome[m.id] # "duplicate")
            => /\ m.correlation_id # None
               /\ m.correlation_id \in processed']_vars

====
